---- MODULE Spec2Model ----
(***************************************************************************)
(* Listener / credential negotiation of charms.wand                        *)
(* (wand/apps/relations/kafka_listener.py, kafka_relation_base.py).        *)
(*                                                                         *)
(* Strings that carry JSON are modelled by their structure: a text is      *)
(* [enc, obj] = the dict obj dumped once and then dumped `enc` more times  *)
(* as a Python str.  json.dumps keeps the insertion order of a dict and    *)
(* every text the code compares is derived from the same dict object, so   *)
(* key order is not modelled.                                              *)
(***************************************************************************)
EXTENDS Integers, Sequences, FiniteSets, TLC

VARIABLES relations, data, state, truststore, ret, nwrites, leader, machine

vars == <<relations, data, state, truststore, ret, nwrites, leader, machine>>

\* machine is the host of the unit: its hosts file, the files in /tmp, the
\* services and the unit status; the relation handlers never touch it
NoMachine == [hosts |-> <<>>]

----------------------------------------------------------------------------
(* Bounds                                                                  *)

\* json.dumps of a str nests one level deeper on every call: cap the depth.
MaxEnc == 2

----------------------------------------------------------------------------
(* Deployment: one provider application and three requirer applications    *)

ProviderUnits == {"kafka/0", "kafka/1"}
RequirerUnits == {"test/0", "test/1", "connect/0", "schema-registry/0"}
Units == ProviderUnits \cup RequirerUnits

AppOf == ("kafka/0" :> "kafka") @@ ("kafka/1" :> "kafka") @@
         ("test/0" :> "test") @@ ("test/1" :> "test") @@
         ("connect/0" :> "connect") @@
         ("schema-registry/0" :> "schema-registry")

\* the leaders of the requirer applications
Leaders == {"test/0", "connect/0", "schema-registry/0"}

\* unit.is_leader(): leader is the unit that holds the leadership of the
\* provider application
is_leader(u) == IF u \in ProviderUnits THEN u = leader ELSE u \in Leaders

\* the relation instances of the relation name, in model.relations order
RelOrder == <<"r1", "r2", "r3">>

Rels == {"r1", "r2", "r3"}

\* the requirer application at the other end of each relation instance
RemoteApp == ("r1" :> "test") @@ ("r2" :> "connect") @@
             ("r3" :> "schema-registry")

\* iteration order of the units
UnitOrder == <<"kafka/0", "kafka/1", "test/1", "test/0", "connect/0",
               "schema-registry/0">>

UnitsIn(r) == ProviderUnits \cup {u \in RequirerUnits : AppOf[u] = RemoteApp[r]}

----------------------------------------------------------------------------
(* Python values                                                           *)

EmptyDict == [k \in {} |-> 0]

\* d[key] = val
SetItem(d, key, val) == (key :> val) @@ d

\* del d[key]
DelItem(d, key) == [k \in DOMAIN d \ {key} |-> d[k]]

\* d.get(key, default)
Get(d, key, default) == IF key \in DOMAIN d THEN d[key] ELSE default

\* json.dumps(dict)
json_dumps(d) == [enc |-> 0, obj |-> d]

\* json.dumps(str): the text is quoted and escaped, one level deeper
json_dumps_str(t) == [enc |-> t.enc + 1, obj |-> t.obj]

\* json.loads(text) gives a dict exactly when the text was dumped from a dict
loads_is_dict(t) == t.enc = 0

\* json.loads(text) when it gives a str: the text one level up
json_loads_str(t) == [enc |-> t.enc - 1, obj |-> t.obj]

\* "::".join(list): a list holding one empty string joins to the empty string
Join(l) == IF l = <<"">> THEN <<>> ELSE l

\* str.split("::"): the empty string splits into one empty piece
Split(s) == IF s = <<>> THEN <<"">> ELSE s

RECURSIVE SeqToSet(_)
SeqToSet(s) == IF s = <<>> THEN {} ELSE {Head(s)} \cup SeqToSet(Tail(s))

----------------------------------------------------------------------------
(* Values the operations are called with                                   *)

\* genRandomPassword() results
Passwords == {"pw1", "pw2"}

GSSAPI == ("protocol" :> "GSSAPI") @@ ("kerberos-principal" :> "principal") @@
          ("kerberos-protocol" :> "http")

SaslValues == {EmptyDict, GSSAPI}

CertChains == {"", "certA"}

NoExc == "None"

NoArgs == [keystore_path |-> "", keystore_pwd |-> "", get_default |-> FALSE,
           clientauth |-> FALSE]

NoOut == [kind |-> "none", val |-> EmptyDict]

\* ret: the last call made on a unit since the last change made from outside:
\* the operation, the unit, str() of a setter's argument, the arguments and the
\* returned value of get_unit_listener, and the exception raised.
\* run counts the calls of get_unit_listener made in a row on the same unit
\* with the same arguments (1 or 2: two stands for two or more).
NoCall == [op |-> "none", unit |-> "none", arg |-> "", exc |-> NoExc,
           args |-> NoArgs, out |-> NoOut, run |-> 0]

Returned(op, u, arg, exc) ==
    [op |-> op, unit |-> u, arg |-> arg, exc |-> exc, args |-> NoArgs,
     out |-> NoOut, run |-> 0]

\* str(value) of the values the setters are called with
str(v) == CASE v = TRUE -> "True"
            [] v = FALSE -> "False"
            [] OTHER -> "?"

str_sasl(v) == IF "protocol" \in DOMAIN v THEN v["protocol"] ELSE "{}"

----------------------------------------------------------------------------
(* Relation data as a unit sees it                                         *)

\* self.relations
relations_of(rels, u) ==
    SelectSeq(RelOrder, LAMBDA r : r \in rels /\ u \in UnitsIn(r))

\* relation.units: the remote units of the relation
units_of(r, u) ==
    SelectSeq(UnitOrder, LAMBDA v : v \in UnitsIn(r) /\ AppOf[v] # AppOf[u])

\* KafkaRelationBase.all_units
all_units(r, u) == Append(units_of(r, u), u)

\* self.relation: the first relation instance, None (<<>>) without relations
relation(rels, u) ==
    IF relations_of(rels, u) = <<>> THEN <<>> ELSE <<Head(relations_of(rels, u))>>

\* r.data[u][key] = val for every r in self.relations
WriteAll(rels, dat, u, key, val) ==
    [r \in Rels |-> IF r \in SeqToSet(relations_of(rels, u))
                    THEN [dat[r] EXCEPT ![u] = SetItem(@, key, val)]
                    ELSE dat[r]]

Eff(st, dat, ts, exc) == [st |-> st, dat |-> dat, ts |-> ts, exc |-> exc]

----------------------------------------------------------------------------
(* Initial stored state (StoredState.set_default in the constructors)      *)

TsPaths == {"/ts.jks"}
TsPwds == {"tspw"}
KsPaths == {"/ks.jks"}
KsPwds == {"kspw"}

\* KafkaListenerProvidesRelation(port=9092)
port == 9092

NoStore == [path |-> "", pwd |-> "", certs |-> <<>>]

\* KafkaListenerProvidesRelation.__init__
ProviderInit(ipw, epw, bpw) ==
    [available_port |-> port, internal_pwd |-> ipw, external_pwd |-> epw,
     broker_pwd |-> bpw, trusted_certs |-> <<>>, ts_path |-> "", ts_pwd |-> ""]

\* KafkaListenerRequiresRelation.__init__: request "{}" and then
\* set_plaintext_pwd(genRandomPassword()), which stores and does not publish
RequirerInit(pwd) ==
    [request |-> json_dumps(SetItem(EmptyDict, "plaintext_pwd", pwd)),
     trusted_certs |-> <<>>, ts_path |-> "", ts_pwd |-> ""]

EmptyData == [r \in Rels |-> [u \in UnitsIn(r) |-> EmptyDict]]

----------------------------------------------------------------------------
(* KafkaRelationBase: TLS certificates                                     *)

\* the truststore file written by CreateTruststore(path, pwd, certs, ...)
CreateTruststore(ts_path, ts_pwd, certs) ==
    [path |-> ts_path, pwd |-> ts_pwd, certs |-> certs]

\* the key is there, whatever it holds
HasCert_key(dat, r, u) == "tls_cert" \in DOMAIN dat[r][u]

\* r.data[u].get("tls_cert", None) is truthy
HasCert(dat, r, u) == Get(dat[r][u], "tls_cert", "") # ""

\* the test of this unit's own certificate left out
is_TLS_enabled_any(dat, rels, u) ==
    IF relations_of(rels, u) = <<>> THEN "KafkaRelationBaseNotUsedError"
    ELSE IF \E r \in SeqToSet(relations_of(rels, u)) :
               \E v \in SeqToSet(all_units(r, u)) : HasCert(dat, r, v)
         THEN "True"
         ELSE "False"

\* KafkaRelationBase.is_TLS_enabled: "True", "False" or the exception raised
is_TLS_enabled(dat, rels, u) ==
    IF relations_of(rels, u) = <<>> THEN "KafkaRelationBaseNotUsedError"
    ELSE IF \E r \in SeqToSet(relations_of(rels, u)) :
               \E v \in SeqToSet(all_units(r, u)) : HasCert(dat, r, v)
         THEN IF ~HasCert(dat, Head(relation(rels, u)), u)
              THEN "KafkaRelationBaseTLSNotSetError"
              ELSE "True"
         ELSE "False"

\* crt_list of _get_all_tls_cert
RECURSIVE crt_list(_, _, _)
crt_list(dat, r, us) ==
    IF us = <<>> THEN <<>>
    ELSE IF "tls_cert" \in DOMAIN dat[r][Head(us)]
         THEN <<dat[r][Head(us)]["tls_cert"]>> \o crt_list(dat, r, Tail(us))
         ELSE crt_list(dat, r, Tail(us))

\* the new certificates appended to the stored ones
trusted_certs_merged(prev, crts) == prev \o Join(crts)

\* self.state.trusted_certs = "::".join(crt_list)
trusted_certs_joined(prev, crts) == Join(crts)

\* KafkaRelationBase._get_all_tls_cert
get_all_tls_cert(st, dat, ts, rels, u) ==
    LET en == is_TLS_enabled(dat, rels, u) IN
    IF en = "False" THEN Eff(st, dat, ts, NoExc)
    ELSE IF en # "True" THEN Eff(st, dat, ts, en)
    ELSE LET r == Head(relation(rels, u))
             tc == trusted_certs_joined(st[u].trusted_certs,
                                        crt_list(dat, r, all_units(r, u)))
             st2 == [st EXCEPT ![u].trusted_certs = tc]
         IN Eff(st2, dat,
                [ts EXCEPT ![u] = CreateTruststore(st2[u].ts_path,
                                                   st2[u].ts_pwd, Split(tc))],
                NoExc)

\* KafkaRelationBase.set_TLS_auth
base_set_TLS_auth(st, dat, ts, rels, u, cert_chain, ts_path_, ts_pwd_) ==
    IF relations_of(rels, u) = <<>>
    THEN Eff(st, dat, ts, "KafkaRelationBaseNotUsedError")
    ELSE LET dat2 == WriteAll(rels, dat, u, "tls_cert", cert_chain)
             st2 == [st EXCEPT ![u].ts_path = ts_path_,
                               ![u].ts_pwd = ts_pwd_,
                               ![u].trusted_certs = Join(<<cert_chain>>)]
         IN get_all_tls_cert(st2, dat2, ts, rels, u)

----------------------------------------------------------------------------
(* KafkaListenerRequiresRelation                                           *)

\* KafkaListenerRequiresRelation._set_request
publish_request(st, dat, ts, rels, u) ==
    IF relations_of(rels, u) = <<>> THEN Eff(st, dat, ts, NoExc)
    ELSE Eff(st, WriteAll(rels, dat, u, "request", st[u].request), ts, NoExc)

\* KafkaListenerRequiresRelation.set_request, j = json.dumps(req)
set_request(st, dat, ts, rels, u, j) ==
    IF j = st[u].request THEN Eff(st, dat, ts, NoExc)
    ELSE publish_request([st EXCEPT ![u].request = j], dat, ts, rels, u)

\* set_field without the equal-value guard, publishing directly
set_field_unguarded(st, dat, ts, rels, u, field, value) ==
    IF ~loads_is_dict(st[u].request) THEN Eff(st, dat, ts, "TypeError")
    ELSE LET req2 == SetItem(st[u].request.obj, field, value)
         IN publish_request([st EXCEPT ![u].request = json_dumps(req2)],
                            dat, ts, rels, u)

\* the body shared by set_plaintext_pwd, set_sasl and set_is_public.
\* On a stored request that decodes to a str, `field in req` is a substring
\* test and both req[field] and req[field] = value raise TypeError.
set_field(st, dat, ts, rels, u, field, value) ==
    IF ~loads_is_dict(st[u].request) THEN Eff(st, dat, ts, "TypeError")
    ELSE LET req == st[u].request.obj IN
         IF field \in DOMAIN req /\ value = req[field]
         THEN Eff(st, dat, ts, NoExc)
         ELSE LET req2 == SetItem(req, field, value)
                  st2 == [st EXCEPT ![u].request = json_dumps(req2)]
              IN set_request(st2, dat, ts, rels, u, json_dumps(req2))

set_plaintext_pwd(st, dat, ts, rels, u, pwd) ==
    set_field(st, dat, ts, rels, u, "plaintext_pwd", pwd)

set_sasl(st, dat, ts, rels, u, sasl) ==
    set_field(st, dat, ts, rels, u, "SASL", sasl)

set_is_public(st, dat, ts, rels, u, is_public) ==
    set_field(st, dat, ts, rels, u, "is_public", is_public)

\* KafkaListenerRequiresRelation.set_TLS_auth: the request is republished,
\* then the call of the base method with six arguments raises TypeError
requirer_set_TLS_auth(st, dat, ts, rels, u, cert_chain) ==
    IF ~loads_is_dict(st[u].request) THEN Eff(st, dat, ts, "TypeError")
    ELSE LET req2 == SetItem(st[u].request.obj, "cert", cert_chain)
             e == set_request(st, dat, ts, rels, u, json_dumps(req2))
         IN Eff(e.st, e.dat, e.ts, "TypeError")

\* KafkaListenerRequiresRelation.on_listener_relation_joined:
\* set_request(self.request) dumps the stored str again
on_listener_relation_joined(st, dat, ts, rels, u) ==
    LET e == set_request(st, dat, ts, rels, u, json_dumps_str(st[u].request))
    IN get_all_tls_cert(e.st, e.dat, e.ts, rels, u)

\* KafkaListenerRequiresRelation.on_listener_relation_changed
on_listener_relation_changed(st, dat, ts, rels, u) ==
    on_listener_relation_joined(st, dat, ts, rels, u)

\* KafkaListenerProvidesRelation.on_listener_relation_changed
provider_on_listener_relation_changed(st, dat, ts, rels, u) ==
    get_all_tls_cert(st, dat, ts, rels, u)

----------------------------------------------------------------------------
(* KafkaListenerProvidesRelation: allocation of the listeners              *)

\* "name://host:port"
Endpoint(name, host, p) == [scheme |-> name, host |-> host, port |-> p]

\* "host:port"
HostPort(host, p) == [host |-> host, port |-> p]

\* self.ts_path, self.ts_pwd: the stored truststore path and password
ts_path(st, k) == st[k].ts_path

ts_pwd(st, k) == st[k].ts_pwd

\* name.replace("-", "_") on the application names of the deployment
replace_dash(name) ==
    CASE name = "schema-registry" -> "schema_registry"
      [] OTHER -> name

\* the test taken to fail for every protocol
contains_SASL_never(secprot) == FALSE

\* "SASL" in secprot
contains_SASL(secprot) == secprot \in {"SASL", "SASL_SSL", "SASL_PLAINTEXT"}

DefaultListener(scheme, host, p, public, pwd, st, k, ks_path_, ks_pwd_) ==
    [endpoint |-> Endpoint(scheme, host, p),
     advertise |-> Endpoint(scheme, host, p),
     is_public |-> public,
     plaintext_pwd |-> pwd,
     cert_present |-> TRUE,
     sasl_present |-> FALSE,
     secprot |-> "SSL",
     SASL |-> EmptyDict,
     cert |-> "",
     ts_path |-> ts_path(st, k),
     ts_pwd |-> ts_pwd(st, k),
     ks_path |-> ks_path_,
     ks_pwd |-> ks_pwd_]

\* KafkaListenerProvidesRelation._get_default_listeners
get_default_listeners(st, k, keystore_path, keystore_pwd, clientauth) ==
    LET p == st[k].available_port IN
    ("internal" :> DefaultListener("INTERNAL", "*BINDING*", p, FALSE,
                                   st[k].internal_pwd, st, k,
                                   keystore_path, keystore_pwd)) @@
    ("external" :> DefaultListener("EXTERNAL", "*ADVERTISE*", p + 1, TRUE,
                                   st[k].external_pwd, st, k,
                                   keystore_path, keystore_pwd)) @@
    ("broker" :> DefaultListener("BROKER", "*BINDING*", p + 2, FALSE,
                                 st[k].broker_pwd, st, k,
                                 keystore_path, keystore_pwd))

\* the (relation, remote unit) pairs in the order of the two nested loops
RECURSIVE loop_pairs(_, _)
loop_pairs(rs, k) ==
    IF rs = <<>> THEN <<>>
    ELSE LET us == units_of(Head(rs), k) IN
         [i \in 1..Len(us) |-> <<Head(rs), us[i]>>] \o loop_pairs(Tail(rs), k)

\* u.is_leader() of a remote unit: only the remote leader's data is processed
remote_is_leader_any(u) == TRUE

remote_is_leader(u) == is_leader(u)

\* self.available_port += 1 without effect
jump_port_stuck(p) == p

\* self.available_port += 1: jump to the next port
jump_port(p) == p + 1

\* the first key that the listener body reads and the request does not hold
MissingKey(req) ==
    IF "secprot" \notin DOMAIN req THEN "secprot"
    ELSE IF "SASL" \notin DOMAIN req THEN "SASL"
    ELSE IF "plaintext_pwd" \notin DOMAIN req THEN "plaintext_pwd"
    ELSE IF "cert" \notin DOMAIN req THEN "cert"
    ELSE ""

\* the listener built for one request
RequestListener(req, name, p, st, k, args) ==
    LET addr == IF Get(req, "is_public", FALSE) THEN "*ADVERTISE*"
                ELSE "*BINDING*"
    IN [bootstrap_server |-> HostPort(addr, p),
        endpoint |-> Endpoint(name, addr, p),
        advertise |-> Endpoint(name, addr, p),
        secprot |-> req["secprot"],
        SASL |-> req["SASL"],
        plaintext_pwd |-> req["plaintext_pwd"],
        cert_present |-> req["cert"] # "",
        sasl_present |-> contains_SASL(req["secprot"]),
        ts_path |-> ts_path(st, k),
        ts_pwd |-> ts_pwd(st, k),
        ks_path |-> args.keystore_path,
        ks_pwd |-> args.keystore_pwd,
        clientauth |-> args.clientauth]

\* the body of the loops of get_unit_listener over the remaining pairs;
\* acc = [listeners, available_port, exc]
RECURSIVE listener_loop(_, _, _, _, _, _)
listener_loop(ps, acc, st, dat, k, args) ==
    IF ps = <<>> \/ acc.exc # NoExc THEN acc
    ELSE LET r == Head(ps)[1]
             u == Head(ps)[2]
             rest == Tail(ps)
         IN
         IF ~remote_is_leader(u) THEN listener_loop(rest, acc, st, dat, k, args)
         ELSE IF "request" \notin DOMAIN dat[r][u]
              THEN listener_loop(rest, acc, st, dat, k, args)
         ELSE LET inter == dat[r][u]["request"] IN
              IF loads_is_dict(inter) /\ inter.obj = EmptyDict
              THEN listener_loop(rest, acc, st, dat, k, args)
              ELSE LET p == jump_port(acc.available_port)
                       name == replace_dash(AppOf[u])
                   IN
                   IF ~loads_is_dict(inter)
                   THEN \* req is a str: req.get raises
                        [acc EXCEPT !.available_port = p,
                                    !.exc = "AttributeError"]
                   ELSE IF MissingKey(inter.obj) # ""
                   THEN [acc EXCEPT !.available_port = p, !.exc = "KeyError"]
                   ELSE listener_loop(
                          rest,
                          [acc EXCEPT
                             !.available_port = p,
                             !.listeners =
                                SetItem(@, name,
                                        RequestListener(inter.obj, name, p,
                                                        st, k, args))],
                          st, dat, k, args)

Out(kind, val) == [kind |-> kind, val |-> val]

Result(st, out, exc) == [st |-> st, out |-> out, exc |-> exc]

\* self.available_port += 3, whether or not the defaults are enabled
reserve_default_ports(p, get_default) == p + 3

\* the reset left out: the port counter carries over from the previous run
keep_available_port(st, k) == st

\* self.available_port = self.port
reset_available_port(st, k) == [st EXCEPT ![k].available_port = port]

\* the leader check left out
unit_is_leader_always(k) == TRUE

\* self.unit.is_leader()
unit_is_leader(k) == is_leader(k)

\* KafkaListenerProvidesRelation.get_unit_listener: the stored state after the
\* call, the returned value (a dict, or the JSON text of the listeners) and
\* the exception raised
get_unit_listener(st, dat, rels, k, args) ==
    LET st1 == reset_available_port(st, k)
        defaults == get_default_listeners(st1, k, args.keystore_path,
                                          args.keystore_pwd, args.clientauth)
    IN
    IF ~unit_is_leader(k) THEN Result(st1, Out("dict", EmptyDict), NoExc)
    ELSE IF relations_of(rels, k) = <<>>
    THEN Result(st1, Out("dict", IF args.get_default THEN defaults
                                 ELSE EmptyDict), NoExc)
    ELSE LET acc == listener_loop(
                      loop_pairs(relations_of(rels, k), k),
                      [listeners |-> IF args.get_default THEN defaults
                                     ELSE EmptyDict,
                       available_port |->
                          reserve_default_ports(st1[k].available_port,
                                                args.get_default),
                       exc |-> NoExc],
                      st1, dat, k, args)
             st2 == [st1 EXCEPT ![k].available_port = acc.available_port]
         IN IF acc.exc # NoExc THEN Result(st2, NoOut, acc.exc)
            ELSE Result(st2, Out("json", acc.listeners), NoExc)

----------------------------------------------------------------------------
(* KafkaListenerProvidesRelation: resolution and publication               *)

\* get_hostname(self.binding_addr), get_hostname(self.advertise_addr)
BindingHost == ("kafka/0" :> "kafka-0.lan") @@ ("kafka/1" :> "kafka-1.lan")

AdvertiseHost == ("kafka/0" :> "kafka-0.example") @@
                 ("kafka/1" :> "kafka-1.example")

\* the replacement of *ADVERTISE* left out
replace_binding_only(str_, k) ==
    IF str_ = "*BINDING*" THEN BindingHost[k] ELSE str_

\* str.replace of the two placeholders on a string without further text
replace_placeholders(str_, k) ==
    IF str_ = "*BINDING*" THEN BindingHost[k]
    ELSE IF str_ = "*ADVERTISE*" THEN AdvertiseHost[k]
    ELSE str_

\* the replacement on the value of one field of a listener
replace_in_field(f, v, k) ==
    IF f \in {"endpoint", "advertise"}
    THEN Endpoint(replace_placeholders(v.scheme, k),
                  replace_placeholders(v.host, k), v.port)
    ELSE IF f = "bootstrap_server"
    THEN HostPort(replace_placeholders(v.host, k), v.port)
    ELSE IF f = "SASL"
    THEN [x \in DOMAIN v |-> replace_placeholders(v[x], k)]
    ELSE IF f \in {"is_public", "cert_present", "sasl_present", "clientauth"}
    THEN v
    ELSE replace_placeholders(v, k)

\* the listeners parsed from the text after both replacements
replace_in_listeners(m, k) ==
    [n \in {replace_placeholders(x, k) : x \in DOMAIN m} |->
        LET x == CHOOSE x \in DOMAIN m : replace_placeholders(x, k) = n
        IN [f \in DOMAIN m[x] |-> replace_in_field(f, m[x][f], k)]]

\* only None counts as empty
is_none_template(lst) == lst.kind = "none"

\* `not lst or len(lst) == 0`: None, the empty string (kind "str") and the
\* empty dict; the text of a dumped map, "{}" included, is not empty
is_empty_template(lst) ==
    lst.kind \in {"none", "str"} \/ (lst.kind = "dict" /\ lst.val = EmptyDict)

\* KafkaListenerProvidesRelation._convert_listener_template: the listeners,
\* or the exception raised (a dict has no replace)
convert_listener_template(lst, k) ==
    IF is_empty_template(lst)
    THEN [val |-> EmptyDict,
          exc |-> "KafkaListenerRelationEmptyListenerDictError"]
    ELSE IF lst.kind = "dict"
    THEN [val |-> EmptyDict, exc |-> "AttributeError"]
    ELSE [val |-> replace_in_listeners(lst.val, k), exc |-> NoExc]

\* the comparison left out: the value is assigned in every relation instance
bootstrap_data_differs_always(d, j) == TRUE

\* j != r.data[self.unit].get("bootstrap-data", "")
bootstrap_data_differs(d, j) ==
    "bootstrap-data" \notin DOMAIN d \/ d["bootstrap-data"] # j

\* KafkaListenerProvidesRelation.set_bootstrap_data: the copy without ts_pwd
\* and ks_pwd is discarded and the resolved listeners are published whole
set_bootstrap_data(st, dat, ts, rels, k, lst) ==
    IF is_empty_template(lst)
    THEN Eff(st, dat, ts, "KafkaListenerRelationEmptyListenerDictError")
    ELSE IF relations_of(rels, k) = <<>> THEN Eff(st, dat, ts, NoExc)
    ELSE LET c == convert_listener_template(lst, k) IN
         IF c.exc # NoExc THEN Eff(st, dat, ts, c.exc)
         ELSE LET j == json_dumps(c.val) IN
              Eff(st,
                  [r \in Rels |->
                     IF r \in SeqToSet(relations_of(rels, k))
                        /\ bootstrap_data_differs(dat[r][k], j)
                     THEN [dat[r] EXCEPT ![k] = SetItem(@, "bootstrap-data", j)]
                     ELSE dat[r]],
                  ts, NoExc)

\* the names of the listeners in the order of listeners.items(): the defaults
\* as _get_default_listeners inserts them, then the requesting applications
\* in the order of the relations
ListenerOrder(m) ==
    SelectSeq(<<"internal", "external", "broker">>
                 \o [i \in 1..Len(RelOrder) |-> replace_dash(RemoteApp[RelOrder[i]])],
              LAMBDA n : n \in DOMAIN m)

\* the subscripts of v["SASL"] that _generate_opts reads and v does not hold
sasl_key_missing(v) ==
    v.sasl_present /\
      \/ "protocol" \notin DOMAIN v.SASL
      \/ /\ v.SASL["protocol"] = "GSSAPI"
         /\ {"kerberos-principal", "kerberos-protocol"} \ DOMAIN v.SASL # {}
      \/ /\ v.SASL["protocol"] = "OAUTHBEARER"
         /\ "publicKeyPath" \notin DOMAIN v.SASL

\* the "listener.name.<k>." options of one listener, keyed by their suffix
listener_name_opts(v, st, k, keystore_path, keystore_pwd, clientauth) ==
    LET sasl ==
          IF ~v.sasl_present THEN EmptyDict
          ELSE (".sasl.enabled.mechanisms" :> v.SASL["protocol"]) @@
               (IF v.SASL["protocol"] = "GSSAPI"
                THEN (".gssapi.sasl.jaas.config" :>
                         v.SASL["kerberos-principal"]) @@
                     (".sasl.kerberos.service.name" :>
                         v.SASL["kerberos-protocol"])
                ELSE IF v.SASL["protocol"] = "OAUTHBEARER"
                THEN (".sasl.jaas.config" :> v.SASL["publicKeyPath"]) @@
                     (IF "confluent" \in DOMAIN v.SASL
                      THEN (".oauthbearer.sasl.login.callback.handler.class"
                               :> v.SASL["confluent"]["login.callback"]) @@
                           (".oauthbearer.sasl.server.callback.handler.class"
                               :> v.SASL["confluent"]["server.callback"])
                      ELSE EmptyDict)
                ELSE EmptyDict)
        ssl ==
          IF ~v.cert_present THEN EmptyDict
          ELSE (".ssl.client.auth" :>
                   (IF clientauth THEN "required" ELSE "none")) @@
               (".ssl.key.password" :> keystore_pwd) @@
               (".ssl.keystore.location" :> keystore_path) @@
               (".ssl.keystore.password" :> keystore_pwd) @@
               (IF ts_path(st, k) # ""
                THEN (".ssl.truststore.location" :> ts_path(st, k)) @@
                     (".ssl.truststore.password" :> ts_pwd(st, k))
                ELSE EmptyDict)
    IN sasl @@ ssl

\* KafkaListenerProvidesRelation._generate_opts: the options, or the exception
\* raised
generate_opts(st, k, lst, args) ==
    IF is_empty_template(lst)
    THEN [val |-> EmptyDict,
          exc |-> "KafkaListenerRelationEmptyListenerDictError"]
    ELSE LET c == convert_listener_template(lst, k) IN
         IF c.exc # NoExc THEN c
         ELSE IF \E n \in DOMAIN c.val : sasl_key_missing(c.val[n])
         THEN [val |-> EmptyDict, exc |-> "KeyError"]
         ELSE LET ord == ListenerOrder(c.val) IN
              [val |->
                 [listeners |-> [i \in 1..Len(ord) |-> c.val[ord[i]].endpoint],
                  advertised |-> [i \in 1..Len(ord) |-> c.val[ord[i]].advertise],
                  protocol_map |->
                     [i \in 1..Len(ord) |-> <<ord[i], c.val[ord[i]].secprot>>],
                  named |->
                     [n \in DOMAIN c.val |->
                        listener_name_opts(c.val[n], st, k, args.keystore_path,
                                           args.keystore_pwd, args.clientauth)]],
               exc |-> NoExc]

\* the body of the loops of get_bootstrap_servers over the remaining
\* (relation, remote unit) pairs; acc = [servers, exc]
RECURSIVE servers_loop(_, _, _, _)
servers_loop(ps, acc, dat, lst_name) ==
    IF ps = <<>> \/ acc.exc # NoExc THEN acc
    ELSE LET bag == dat[Head(ps)[1]][Head(ps)[2]] IN
         IF "bootstrap-server" \notin DOMAIN bag
         THEN servers_loop(Tail(ps), acc, dat, lst_name)
         ELSE IF "bootstrap-data" \notin DOMAIN bag
         THEN [acc EXCEPT !.exc = "KeyError"]
         ELSE LET req == bag["bootstrap-data"].obj IN
              IF lst_name \notin DOMAIN req
                 \/ "bootstrap_server" \notin DOMAIN req[lst_name]
              THEN [acc EXCEPT !.exc = "KafkaListenerRelationNotSetError"]
              ELSE servers_loop(
                     Tail(ps),
                     [acc EXCEPT !.servers =
                         Append(@, req[lst_name]["bootstrap_server"])],
                     dat, lst_name)

\* KafkaListenerRequiresRelation.get_bootstrap_servers: the servers that
\* ",".join puts together, or the exception raised
get_bootstrap_servers(dat, rels, u) ==
    IF relations_of(rels, u) = <<>>
    THEN [servers |-> <<>>, exc |-> "KafkaListenerRelationNotSetError"]
    ELSE servers_loop(loop_pairs(relations_of(rels, u), u),
                      [servers |-> <<>>, exc |-> NoExc],
                      dat, replace_dash(AppOf[u]))

----------------------------------------------------------------------------
(* Actions                                                                 *)

Apply(e, op, u, arg) ==
    /\ state' = e.st
    /\ data' = e.dat
    /\ truststore' = e.ts
    /\ ret' = Returned(op, u, arg, e.exc)
    /\ UNCHANGED <<relations, nwrites, leader, machine>>

\* the runtime establishes a relation instance
RelationCreated(r) ==
    /\ r \notin relations
    /\ relations' = relations \cup {r}
    /\ ret' = NoCall
    /\ UNCHANGED <<data, state, truststore, nwrites, leader, machine>>

SetPlaintextPwd(u, pwd) ==
    /\ u \in RequirerUnits
    /\ Apply(set_plaintext_pwd(state, data, truststore, relations, u, pwd),
             "set_plaintext_pwd", u, pwd)

SetSasl(u, sasl) ==
    /\ u \in RequirerUnits
    /\ Apply(set_sasl(state, data, truststore, relations, u, sasl),
             "set_sasl", u, str_sasl(sasl))

SetIsPublic(u, b) ==
    /\ u \in RequirerUnits
    /\ Apply(set_is_public(state, data, truststore, relations, u, b),
             "set_is_public", u, str(b))

RequirerSetTLSAuth(u, c) ==
    /\ u \in RequirerUnits
    /\ Apply(requirer_set_TLS_auth(state, data, truststore, relations, u, c),
             "set_TLS_auth", u, c)

RequirerRelationJoined(u) ==
    /\ state[u].request.enc < MaxEnc
    /\ Apply(on_listener_relation_joined(state, data, truststore, relations, u),
             "on_listener_relation_joined", u, "")

RequirerRelationChanged(u) ==
    /\ state[u].request.enc < MaxEnc
    /\ Apply(on_listener_relation_changed(state, data, truststore, relations, u),
             "on_listener_relation_changed", u, "")

ProviderSetTLSAuth(k, c, p, w) ==
    /\ k \in ProviderUnits
    /\ Apply(base_set_TLS_auth(state, data, truststore, relations, k, c, p, w),
             "set_TLS_auth", k, c)

ProviderRelationChanged(k) ==
    /\ k \in ProviderUnits
    /\ Apply(provider_on_listener_relation_changed(state, data, truststore,
                                                   relations, k),
             "on_listener_relation_changed", k, "")

----------------------------------------------------------------------------
(* Spec: one requirer unit with its setters and handlers, and the          *)
(* certificates of the provider units                                      *)

Requirer == "test/0"

TlsProvider == "kafka/0"

Provider == "kafka/0"

Follower == "kafka/1"

\* the units right after construction, the requirers with the given requests
Constructed(reqs) ==
    /\ data = EmptyData
    /\ state = [u \in Units |->
                  IF u \in ProviderUnits THEN ProviderInit("ipw", "epw", "bpw")
                  ELSE [RequirerInit("pw1") EXCEPT !.request = reqs[u]]]
    /\ truststore = [u \in Units |-> NoStore]
    /\ ret = NoCall
    /\ nwrites = [u \in Units |-> 0]
    /\ leader = "kafka/0"
    /\ machine = NoMachine

Init ==
    /\ relations = {}
    /\ \E pw \in Passwords :
         Constructed([u \in RequirerUnits |->
                        IF u = Requirer THEN RequirerInit(pw).request
                        ELSE RequirerInit("pw1").request])

Next ==
    \/ RelationCreated("r1")
    \/ \E pwd \in Passwords : SetPlaintextPwd(Requirer, pwd)
    \/ \E sasl \in SaslValues : SetSasl(Requirer, sasl)
    \/ \E b \in BOOLEAN : SetIsPublic(Requirer, b)
    \/ \E c \in CertChains : RequirerSetTLSAuth(Requirer, c)
    \/ RequirerRelationJoined(Requirer)
    \/ RequirerRelationChanged(Requirer)
    \/ \E c \in CertChains, p \in TsPaths, w \in TsPwds :
          ProviderSetTLSAuth(TlsProvider, c, p, w)
    \/ ProviderRelationChanged(TlsProvider)

Spec == Init /\ [][Next]_vars

----------------------------------------------------------------------------
(* SpecAlloc: the provider units allocate the listeners for the requests   *)
(* that the remote units publish                                           *)

\* requests in the wire format of the module documentation
Request(is_public, secprot, sasl, cert) ==
    ("is_public" :> is_public) @@ ("plaintext_pwd" :> "") @@
    ("secprot" :> secprot) @@ ("SASL" :> sasl) @@ ("cert" :> cert)

PlainReq == Request(FALSE, "PLAINTEXT", EmptyDict, "")

SaslReq == Request(TRUE, "SASL_SSL", GSSAPI, "")

RemoteRequests == {EmptyDict, PlainReq, SaslReq}

AllocArgs == [keystore_path : KsPaths, keystore_pwd : KsPwds,
              get_default : BOOLEAN, clientauth : BOOLEAN]

\* a remote unit writes a request into its own relation data
RemotePublish(r, u, req) ==
    /\ r \in relations
    /\ u \in UnitsIn(r) \cap RequirerUnits
    /\ data' = [data EXCEPT ![r][u] = SetItem(@, "request", json_dumps(req))]
    /\ ret' = NoCall
    /\ UNCHANGED <<relations, state, truststore, nwrites, leader, machine>>

\* a remote unit removes its request
RemoteClear(r, u) ==
    /\ r \in relations
    /\ u \in UnitsIn(r) \cap RequirerUnits
    /\ "request" \in DOMAIN data[r][u]
    /\ data' = [data EXCEPT ![r][u] = DelItem(@, "request")]
    /\ ret' = NoCall
    /\ UNCHANGED <<relations, state, truststore, nwrites, leader, machine>>

SameCall(k, args) ==
    ret.op = "get_unit_listener" /\ ret.unit = k /\ ret.args = args

GetUnitListener(k, args) ==
    /\ k \in ProviderUnits
    /\ LET res == get_unit_listener(state, data, relations, k, args) IN
       /\ state' = res.st
       /\ ret' = [op |-> "get_unit_listener", unit |-> k, arg |-> "",
                  exc |-> res.exc, args |-> args, out |-> res.out,
                  run |-> IF SameCall(k, args) THEN 2 ELSE 1]
    /\ UNCHANGED <<relations, data, truststore, nwrites, leader, machine>>

InitAlloc ==
    /\ relations = {}
    /\ Constructed([u \in RequirerUnits |-> RequirerInit("pw1").request])

NextAlloc ==
    \/ \E r \in Rels : RelationCreated(r)
    \/ \E r \in Rels, u \in RequirerUnits, req \in RemoteRequests :
          RemotePublish(r, u, req)
    \/ \E r \in Rels, u \in RequirerUnits : RemoteClear(r, u)
    \/ \E k \in ProviderUnits, args \in AllocArgs : GetUnitListener(k, args)

SpecAlloc == InitAlloc /\ [][NextAlloc]_vars

----------------------------------------------------------------------------
(* SpecSys: the configured system.  The relations are established, no      *)
(* configuration changes any more, and the relation-changed event is       *)
(* delivered to the units in any order and any number of times.            *)

\* the arguments the provider charm calls get_unit_listener with
SysArgs == [keystore_path |-> "/ks.jks", keystore_pwd |-> "kspw",
            get_default |-> TRUE, clientauth |-> FALSE]

\* requests stored by the constructor and the setters
ConfiguredRequests ==
    {RequirerInit("pw1").request,
     json_dumps(SetItem(SetItem(RequirerInit("pw2").request.obj,
                                "SASL", GSSAPI), "is_public", TRUE))}

\* the number of keys of u whose value differs between dat and dat2
Written(dat, dat2, u) ==
    Cardinality({x \in {r \in Rels : u \in UnitsIn(r)}
                       \X {"request", "bootstrap-data", "tls_cert"} :
                   /\ x[2] \in DOMAIN dat2[x[1]][u]
                   /\ \/ x[2] \notin DOMAIN dat[x[1]][u]
                      \/ dat[x[1]][u][x[2]] # dat2[x[1]][u][x[2]]})

Deliver(e, op, u) ==
    /\ state' = e.st
    /\ data' = e.dat
    /\ truststore' = e.ts
    /\ ret' = Returned(op, u, "", e.exc)
    /\ nwrites' = [nwrites EXCEPT ![u] = @ + Written(data, e.dat, u)]
    /\ UNCHANGED <<relations, leader, machine>>

\* relation-changed delivered to a requirer unit
DeliverRequirerChanged(u) ==
    /\ u \in RequirerUnits
    /\ state[u].request.enc < MaxEnc
    /\ Deliver(on_listener_relation_changed(state, data, truststore,
                                            relations, u),
               "on_listener_relation_changed", u)

\* relation-changed delivered to a provider unit: the handler of the relation,
\* then the allocation and set_bootstrap_data with the leader's allocation
provider_changed(st, dat, ts, rels, k) ==
    LET e == provider_on_listener_relation_changed(st, dat, ts, rels, k)
        own == get_unit_listener(e.st, dat, rels, k, SysArgs)
        lead == get_unit_listener(own.st, dat, rels, Provider, SysArgs)
    IN
    IF e.exc # NoExc THEN e
    ELSE IF lead.exc # NoExc THEN Eff(own.st, dat, ts, lead.exc)
    ELSE set_bootstrap_data(own.st, dat, ts, rels, k, lead.out)

DeliverProviderChanged(k) ==
    /\ k \in ProviderUnits
    /\ Deliver(provider_changed(state, data, truststore, relations, k),
               "set_bootstrap_data", k)

InitSys ==
    /\ relations = Rels
    /\ \E reqs \in [RequirerUnits -> ConfiguredRequests] : Constructed(reqs)

NextSys ==
    \/ \E u \in RequirerUnits : DeliverRequirerChanged(u)
    \/ \E k \in ProviderUnits : DeliverProviderChanged(k)

SpecSys == InitSys /\ [][NextSys]_vars

\* C4: with the configuration fixed, every unit writes each of its keys at
\* most once in each relation instance, whatever the order and the number of
\* the relation-changed deliveries.
C4_BoundedWrites ==
    \A u \in Units : nwrites[u] <= Len(relations_of(relations, u))

----------------------------------------------------------------------------
(* Requirer side: publication of the request                               *)

\* the 'request' of u in every relation instance equals its stored request
Published(rels, dat, st, u) ==
    \A r \in SeqToSet(relations_of(rels, u)) :
        /\ "request" \in DOMAIN dat[r][u]
        /\ dat[r][u]["request"] = st[u].request

\* the stored request of u holds `value` in `field`
Holds(u, field, value) ==
    /\ loads_is_dict(state[u].request)
    /\ field \in DOMAIN state[u].request.obj
    /\ state[u].request.obj[field] = value

\* the stored request of u is a request object that does not hold `value`
Differs(u, field, value) ==
    /\ loads_is_dict(state[u].request)
    /\ ~Holds(u, field, value)

\* a step of one of the three setters of u, called with `value` for `field`
SetterStep(u, field, value) ==
    \/ field = "plaintext_pwd" /\ value \in Passwords
                               /\ SetPlaintextPwd(u, value)
    \/ field = "SASL" /\ value \in SaslValues /\ SetSasl(u, value)
    \/ field = "is_public" /\ value \in BOOLEAN /\ SetIsPublic(u, value)

SetterCalls ==
    ({"plaintext_pwd"} \X Passwords) \cup ({"SASL"} \X SaslValues)
        \cup ({"is_public"} \X BOOLEAN)

\* C1: a setter called with a value that differs from the stored one, with a
\* relation instance established, leaves the request published in every
\* relation instance equal to the stored request.
C1_SetterPublishes ==
    [][\A c \in SetterCalls :
         (/\ Differs(Requirer, c[1], c[2])
          /\ relations_of(relations, Requirer) # <<>>
          /\ SetterStep(Requirer, c[1], c[2]))
         => Published(relations', data', state', Requirer)]_vars

\* C2: a setter called with the value the stored request already holds makes
\* no bus write and leaves the stored request unchanged.
C2_SameValueNoOp ==
    [][\A c \in SetterCalls :
         (Holds(Requirer, c[1], c[2]) /\ SetterStep(Requirer, c[1], c[2]))
         => (data' = data /\ state' = state)]_vars

\* set_sasl was called with the SASL block the stored request already held
C2_Witness ==
    /\ ret.op = "set_sasl" /\ ret.arg = "GSSAPI" /\ ret.exc = NoExc
    /\ Holds(Requirer, "SASL", GSSAPI)
    /\ Holds(Requirer, "plaintext_pwd", "pw2")
    /\ relations_of(relations, Requirer) # <<>>

\* C3: a relation-joined or relation-changed delivery on a requirer leaves the
\* stored request and the published request as they were and writes nothing.
C3_HandlerIdempotent ==
    [][(RequirerRelationJoined(Requirer) \/ RequirerRelationChanged(Requirer))
         => (state'[Requirer].request = state[Requirer].request
             /\ data' = data)]_vars

----------------------------------------------------------------------------
(* Provider side: the allocation                                           *)

\* the last call was get_unit_listener on k and returned a map
Allocated(k) ==
    /\ ret.op = "get_unit_listener" /\ ret.unit = k /\ ret.exc = NoExc
    /\ ret.out.kind \in {"dict", "json"}

PortOf(l) == l.endpoint.port

\* the stored state of a unit that never ran an allocation before
Fresh(st, k) == [st EXCEPT ![k].available_port = port]

\* the remote leaders whose request is a non-empty object, in relation then
\* unit iteration order
Accepted(dat, rels, k) ==
    SelectSeq(loop_pairs(relations_of(rels, k), k),
              LAMBDA x : /\ is_leader(x[2])
                         /\ "request" \in DOMAIN dat[x[1]][x[2]]
                         /\ dat[x[1]][x[2]]["request"].obj # EmptyDict)

\* C5: a run of get_unit_listener returns what a unit that never allocated
\* before returns for the same requests and arguments, and a second run in a
\* row with the same arguments returns the value of the first.
C5_Repeatable ==
    [][ret'.op = "get_unit_listener" =>
         LET k == ret'.unit
             args == ret'.args
         IN /\ ret'.out = get_unit_listener(Fresh(state, k), data, relations,
                                            k, args).out
            /\ SameCall(k, args) => (ret'.out = ret.out /\ ret'.exc = ret.exc)
      ]_vars

\* the leader ran the allocation twice in a row for three requesting
\* applications, the stored port counter being past the base port in between
C5_Witness ==
    /\ Allocated(Provider) /\ ret.run = 2 /\ ret.out.kind = "json"
    /\ Len(Accepted(data, relations, Provider)) = 3
    /\ state[Provider].available_port = port + 6

\* C6: the ports of the listeners of an allocation map are pairwise distinct.
C6_PortsDistinct ==
    \A k \in ProviderUnits :
       Allocated(k) =>
          \A n1, n2 \in DOMAIN ret.out.val :
             n1 # n2 => PortOf(ret.out.val[n1]) # PortOf(ret.out.val[n2])

\* a map with the three default listeners and three requester listeners
C6_Witness ==
    /\ Allocated(Provider) /\ ret.args.get_default
    /\ Cardinality(DOMAIN ret.out.val) = 6

\* C7: with the defaults enabled, internal, external and broker take the base
\* port and the two ports after it, and the k-th accepted requesting
\* application takes port base + 2 + k.
C7_NoPortSkipped ==
    (Allocated(Provider) /\ ret.args.get_default) =>
       LET m == ret.out.val
           acc == Accepted(data, relations, Provider)
       IN /\ m["internal"].endpoint = Endpoint("INTERNAL", "*BINDING*", port)
          /\ m["external"].endpoint =
                Endpoint("EXTERNAL", "*ADVERTISE*", port + 1)
          /\ m["broker"].endpoint = Endpoint("BROKER", "*BINDING*", port + 2)
          /\ \A i \in 1..Len(acc) :
                PortOf(m[replace_dash(AppOf[acc[i][2]])]) = port + 2 + i

\* the reference scenario: defaults disabled, the leader of 'test' asks for a
\* private PLAINTEXT listener and the leader of 'connect' for a public
\* SASL_SSL listener with GSSAPI
C8_Scenario ==
    /\ Allocated(Provider) /\ ~ret.args.get_default
    /\ relations = {"r1", "r2"}
    /\ Get(data["r1"]["test/0"], "request", json_dumps(EmptyDict))
          = json_dumps(PlainReq)
    /\ Get(data["r2"]["connect/0"], "request", json_dumps(EmptyDict))
          = json_dumps(SaslReq)

C8_Listener(name, host, p, secprot, sasl) ==
    /\ name \in DOMAIN ret.out.val
    /\ ret.out.val[name].endpoint = Endpoint(name, host, p)
    /\ ret.out.val[name].secprot = secprot
    /\ ret.out.val[name].SASL = sasl

\* C8: in the reference scenario 'test' is given a binding-address PLAINTEXT
\* endpoint at port 9092 and 'connect' an advertise-address SASL_SSL endpoint
\* at port 9092 with the GSSAPI block copied.
C8_BothAtBasePort ==
    C8_Scenario =>
       /\ C8_Listener("test", "*BINDING*", 9092, "PLAINTEXT", EmptyDict)
       /\ C8_Listener("connect", "*ADVERTISE*", 9092, "SASL_SSL", GSSAPI)

\* C9: get_unit_listener writes no relation data; on a unit that is not the
\* leader it returns the empty dict, and only the leader returns listeners.
C9_LeaderOnly ==
    [][ret'.op = "get_unit_listener" =>
         /\ data' = data
         /\ ~is_leader(ret'.unit) =>
               (ret'.out = Out("dict", EmptyDict) /\ ret'.exc = NoExc)
         /\ ret'.out.val # EmptyDict => is_leader(ret'.unit)
      ]_vars

\* the follower ran the allocation while all three remote leaders had a
\* request published
C9_Witness ==
    /\ Allocated(Follower) /\ ret.args.get_default
    /\ Len(Accepted(data, relations, Follower)) = 3

\* what get_unit_listener returns and raises for every choice of arguments
Outcomes(st, dat, rels, k) ==
    [args \in AllocArgs |->
        LET res == get_unit_listener(st, dat, rels, k, args)
        IN <<res.out, res.exc>>]

\* a step that changes the relation data of remote units that are not the
\* leader of their application, and nothing else
FollowerRequestStep ==
    /\ data' # data
    /\ \A r \in Rels : \A u \in UnitsIn(r) :
          data'[r][u] # data[r][u] => (u \in RequirerUnits /\ ~is_leader(u))
    /\ UNCHANGED <<relations, state>>

\* C10: a change of the request of a remote unit that is not the leader
\* leaves the outcome of get_unit_listener unchanged, and an allocation
\* holds exactly the listeners of the remote leaders with a non-empty request
\* and spends one port on each of them.
C10_LeaderRequestsOnly ==
    [][/\ FollowerRequestStep =>
            Outcomes(state', data', relations', Provider)
               = Outcomes(state, data, relations, Provider)
       /\ (/\ ret'.op = "get_unit_listener" /\ ret'.unit = Provider
           /\ ret'.out.kind = "json") =>
               LET acc == Accepted(data, relations, Provider)
                   names == {replace_dash(AppOf[acc[i][2]]) :
                                i \in 1..Len(acc)}
               IN /\ DOMAIN ret'.out.val \ {"internal", "external", "broker"}
                        = names
                  /\ state'[Provider].available_port = port + 3 + Len(acc)
      ]_vars

\* the non-leader unit of 'test' has a request published, its leader has
\* none, the leader of 'connect' has published the empty object, and the
\* leader allocated for 'schema-registry' alone
C10_Witness ==
    /\ Allocated(Provider) /\ ret.out.kind = "json"
    /\ relations = Rels
    /\ "request" \in DOMAIN data["r1"]["test/1"]
    /\ data["r1"]["test/1"]["request"] = json_dumps(SaslReq)
    /\ "request" \notin DOMAIN data["r1"]["test/0"]
    /\ Get(data["r2"]["connect/0"], "request", json_dumps(PlainReq))
          = json_dumps(EmptyDict)
    /\ DOMAIN ret.out.val = {"schema_registry"}

----------------------------------------------------------------------------
(* SpecBoot: the provider units allocate, resolve and publish the          *)
(* listeners for requests that stay as they are, and the requirer units    *)
(* read the servers                                                        *)

\* a request without is_public whose password reads like a placeholder
PlaceholderReq ==
    DelItem(SetItem(PlainReq, "plaintext_pwd", "*ADVERTISE*"), "is_public")

BootArgs == [keystore_path : KsPaths, keystore_pwd : KsPwds,
             get_default : BOOLEAN, clientauth : {FALSE}]

BootReaders == {"test/0", "connect/0"}

\* what the callers pass as template: None, the empty string, the empty dict,
\* or the value that get_unit_listener has just returned
TemplateChoices == {"none", "str", "dict", "returned"}

HasTemplate(t) ==
    t = "returned" => (ret.op = "get_unit_listener" /\ ret.exc = NoExc)

Template(t) == IF t = "returned" THEN ret.out ELSE Out(t, EmptyDict)

\* the record of a call with the template t
Called(op, k, t, exc, out) ==
    [op |-> op, unit |-> k, arg |-> t, exc |-> exc, args |-> NoArgs,
     out |-> out, run |-> 0]

ConvertListenerTemplate(k, t) ==
    /\ k \in ProviderUnits
    /\ HasTemplate(t)
    /\ LET c == convert_listener_template(Template(t), k) IN
       ret' = Called("_convert_listener_template", k, t, c.exc,
                     Out("listeners", c.val))
    /\ UNCHANGED <<relations, data, state, truststore, nwrites, leader, machine>>

GenerateOpts(k, t, args) ==
    /\ k \in ProviderUnits
    /\ HasTemplate(t)
    /\ LET c == generate_opts(state, k, Template(t), args) IN
       ret' = Called("_generate_opts", k, t, c.exc, Out("opts", c.val))
    /\ UNCHANGED <<relations, data, state, truststore, nwrites, leader, machine>>

SetBootstrapData(k, t) ==
    /\ k \in ProviderUnits
    /\ HasTemplate(t)
    /\ LET e == set_bootstrap_data(state, data, truststore, relations, k,
                                   Template(t))
       IN /\ data' = e.dat
          /\ ret' = Called("set_bootstrap_data", k, t, e.exc, Template(t))
    /\ UNCHANGED <<relations, state, truststore, nwrites, leader, machine>>

GetBootstrapServers(u) ==
    /\ u \in RequirerUnits
    /\ LET b == get_bootstrap_servers(data, relations, u) IN
       ret' = Called("get_bootstrap_servers", u, "", b.exc,
                     Out("servers", [servers |-> b.servers]))
    /\ UNCHANGED <<relations, data, state, truststore, nwrites, leader, machine>>

InitBoot ==
    /\ \E rels \in {{}, {"r1"}, {"r1", "r2"}},
          q1 \in {EmptyDict, PlainReq, PlaceholderReq},
          q2 \in {EmptyDict, SaslReq} :
          /\ relations = rels
          /\ data = [r \in Rels |-> [u \in UnitsIn(r) |->
                       IF r = "r1" /\ u = "test/0" /\ r \in rels
                          /\ q1 # EmptyDict
                       THEN SetItem(EmptyDict, "request", json_dumps(q1))
                       ELSE IF r = "r2" /\ u = "connect/0" /\ r \in rels
                               /\ q2 # EmptyDict
                       THEN SetItem(EmptyDict, "request", json_dumps(q2))
                       ELSE EmptyDict]]
    /\ state = [u \in Units |->
                  IF u \in ProviderUnits
                  THEN [ProviderInit("ipw", "epw", "bpw")
                          EXCEPT !.ts_path = "/ts.jks", !.ts_pwd = "tspw"]
                  ELSE RequirerInit("pw1")]
    /\ truststore = [u \in Units |-> NoStore]
    /\ ret = NoCall
    /\ nwrites = [u \in Units |-> 0]
    /\ leader = "kafka/0"
    /\ machine = NoMachine

NextBoot ==
    \/ \E k \in ProviderUnits, args \in BootArgs : GetUnitListener(k, args)
    \/ \E k \in ProviderUnits, t \in TemplateChoices :
          ConvertListenerTemplate(k, t)
    \/ \E k \in ProviderUnits, t \in TemplateChoices, args \in BootArgs :
          GenerateOpts(k, t, args)
    \/ \E k \in ProviderUnits, t \in TemplateChoices : SetBootstrapData(k, t)
    \/ \E u \in BootReaders : GetBootstrapServers(u)

SpecBoot == InitBoot /\ [][NextBoot]_vars

----------------------------------------------------------------------------
(* Provider side: resolution and publication of the listeners             *)

Placeholders == {"*BINDING*", "*ADVERTISE*"}

\* the strings that the value of one field of a listener is made of
FieldStrings(f, v) ==
    IF f \in {"endpoint", "advertise"} THEN {v.scheme, v.host}
    ELSE IF f = "bootstrap_server" THEN {v.host}
    ELSE IF f = "SASL" THEN {v[x] : x \in DOMAIN v}
    ELSE IF f \in {"is_public", "cert_present", "sasl_present", "clientauth"}
    THEN {}
    ELSE {v}

\* the host that the listener n of an allocation of k has to be addressed by
PlaceholderOf(n, k) ==
    IF n \in {"internal", "broker"} THEN "*BINDING*"
    ELSE IF n = "external" THEN "*ADVERTISE*"
    ELSE LET acc == Accepted(data, relations, k)
             i == CHOOSE i \in 1..Len(acc) : replace_dash(AppOf[acc[i][2]]) = n
             req == data[acc[i][1]][acc[i][2]]["request"].obj
         IN IF "is_public" \in DOMAIN req /\ req["is_public"]
            THEN "*ADVERTISE*" ELSE "*BINDING*"

\* the hosts of the endpoints of a listener
HostsOf(l) ==
    {l.endpoint.host, l.advertise.host}
       \cup (IF "bootstrap_server" \in DOMAIN l THEN {l.bootstrap_server.host}
             ELSE {})

\* C11: every listener of an allocation is addressed by *BINDING* when its
\* request is private or silent about is_public and by *ADVERTISE* when it is
\* public, and no name and no field of the listeners that
\* _convert_listener_template returns for an allocation is a placeholder.
C11_PlaceholdersResolved ==
    /\ \A k \in ProviderUnits :
          Allocated(k) =>
             \A n \in DOMAIN ret.out.val :
                HostsOf(ret.out.val[n]) = {PlaceholderOf(n, k)}
    /\ (ret.op = "_convert_listener_template" /\ ret.exc = NoExc) =>
          \A n \in DOMAIN ret.out.val :
             /\ n \notin Placeholders
             /\ \A f \in DOMAIN ret.out.val[n] :
                   FieldStrings(f, ret.out.val[n][f]) \cap Placeholders = {}

\* the follower resolved an allocation holding the three defaults, the
\* listener of a request without is_public whose password reads *ADVERTISE*,
\* and a public listener
C11_Witness ==
    /\ ret.op = "_convert_listener_template" /\ ret.exc = NoExc
    /\ ret.unit = Follower
    /\ DOMAIN ret.out.val = {"internal", "external", "broker", "test", "connect"}
    /\ ret.out.val["test"].plaintext_pwd = AdvertiseHost[Follower]
    /\ ret.out.val["test"].endpoint.host = BindingHost[Follower]
    /\ ret.out.val["connect"].endpoint.host = AdvertiseHost[Follower]

\* the template of the call was None, the empty string or the empty dict
EmptyInput(lst) ==
    lst = NoOut \/ lst = Out("str", EmptyDict) \/ lst = Out("dict", EmptyDict)

\* C12: _convert_listener_template, _generate_opts and set_bootstrap_data
\* raise KafkaListenerRelationEmptyListenerDictError for a template that is
\* None or empty, and set_bootstrap_data then writes nothing.
C12_EmptyTemplateRejected ==
    [][(/\ ret'.op \in {"_convert_listener_template", "_generate_opts",
                        "set_bootstrap_data"}
        /\ EmptyInput(Template(ret'.arg)))
       => (/\ ret'.exc = "KafkaListenerRelationEmptyListenerDictError"
           /\ data' = data)]_vars

\* set_bootstrap_data was called, with a relation instance established, with
\* the empty dict that get_unit_listener returns on a unit that is not leader
C12_Witness ==
    /\ ret.op = "set_bootstrap_data" /\ ret.arg = "returned"
    /\ ret.out = Out("dict", EmptyDict)
    /\ ret.exc = "KafkaListenerRelationEmptyListenerDictError"
    /\ relations # {}

\* C13: no listener of a published 'bootstrap-data' holds ts_pwd or ks_pwd.
C13_NoPasswordPublished ==
    \A r \in Rels : \A k \in ProviderUnits :
       "bootstrap-data" \in DOMAIN data[r][k] =>
          \A n \in DOMAIN data[r][k]["bootstrap-data"].obj :
             {"ts_pwd", "ks_pwd"}
                \cap DOMAIN data[r][k]["bootstrap-data"].obj[n] = {}

\* every provider unit of every relation instance of u has published a map
\* that holds the listener of the application of u
AllPublishedFor(u) ==
    /\ relations_of(relations, u) # <<>>
    /\ \A r \in SeqToSet(relations_of(relations, u)) :
          \A k \in SeqToSet(units_of(r, u)) :
             /\ "bootstrap-data" \in DOMAIN data[r][k]
             /\ replace_dash(AppOf[u]) \in DOMAIN data[r][k]["bootstrap-data"].obj

\* C14: get_bootstrap_servers raises KafkaListenerRelationNotSetError while
\* there is no relation instance, a provider unit has published nothing, or a
\* published map has no listener for the application.
C14_NotReadyIsTyped ==
    (ret.op = "get_bootstrap_servers" /\ ~AllPublishedFor(ret.unit))
       => ret.exc = "KafkaListenerRelationNotSetError"

\* C15: once every provider unit has published a map holding the listener of
\* the application, get_bootstrap_servers returns the bootstrap_server of that
\* listener of every provider unit, in relation then unit order.
C15_ServersReturned ==
    (ret.op = "get_bootstrap_servers" /\ AllPublishedFor(ret.unit)) =>
       LET u == ret.unit
           ps == loop_pairs(relations_of(relations, u), u)
       IN /\ ret.exc = NoExc
          /\ ret.out.val.servers =
                [i \in 1..Len(ps) |->
                   data[ps[i][1]][ps[i][2]]["bootstrap-data"]
                      .obj[replace_dash(AppOf[u])]["bootstrap_server"]]

----------------------------------------------------------------------------
(* SpecTLS: a provider unit and the remote units publish, replace and      *)
(* remove certificates, and the provider unit builds its truststore        *)

TlsCerts == {"certA", "certB"}

TlsRels == {"r1", "r2"}

TlsRemotes == {"test/0", "connect/0"}

\* a remote unit publishes or replaces its certificate
RemoteSetCert(r, u, c) ==
    /\ r \in relations
    /\ u \in UnitsIn(r) \cap TlsRemotes
    /\ data' = [data EXCEPT ![r][u] = SetItem(@, "tls_cert", c)]
    /\ ret' = NoCall
    /\ UNCHANGED <<relations, state, truststore, nwrites, leader, machine>>

\* a remote unit removes its certificate
RemoteDelCert(r, u) ==
    /\ r \in relations
    /\ u \in UnitsIn(r) \cap TlsRemotes
    /\ "tls_cert" \in DOMAIN data[r][u]
    /\ data' = [data EXCEPT ![r][u] = DelItem(@, "tls_cert")]
    /\ ret' = NoCall
    /\ UNCHANGED <<relations, state, truststore, nwrites, leader, machine>>

\* a call that ends in _get_all_tls_cert; the record keeps the trusted_certs
\* stored before the call
TlsCall(e, op, u) ==
    /\ state' = e.st
    /\ data' = e.dat
    /\ truststore' = e.ts
    /\ ret' = [op |-> op, unit |-> u, arg |-> "", exc |-> e.exc,
               args |-> NoArgs,
               out |-> Out("trusted", [prev |-> state[u].trusted_certs]),
               run |-> 0]
    /\ UNCHANGED <<relations, nwrites, leader, machine>>

SetTLSAuth(k, c, p, w) ==
    /\ k \in ProviderUnits
    /\ TlsCall(base_set_TLS_auth(state, data, truststore, relations, k, c, p, w),
               "set_TLS_auth", k)

RelationChangedTLS(k) ==
    /\ k \in ProviderUnits
    /\ TlsCall(provider_on_listener_relation_changed(state, data, truststore,
                                                     relations, k),
               "on_listener_relation_changed", k)

GetAllTlsCert(u) ==
    /\ u \in Units
    /\ TlsCall(get_all_tls_cert(state, data, truststore, relations, u),
               "_get_all_tls_cert", u)

InitTLS ==
    /\ relations = {}
    /\ Constructed([u \in RequirerUnits |-> RequirerInit("pw1").request])

NextTLS ==
    \/ \E r \in TlsRels : RelationCreated(r)
    \/ \E r \in TlsRels, u \in TlsRemotes, c \in TlsCerts : RemoteSetCert(r, u, c)
    \/ \E r \in TlsRels, u \in TlsRemotes : RemoteDelCert(r, u)
    \/ \E c \in TlsCerts \cup {""}, p \in TsPaths, w \in TsPwds :
          SetTLSAuth(TlsProvider, c, p, w)
    \/ RelationChangedTLS(TlsProvider)
    \/ \E u \in {TlsProvider, "test/0"} : GetAllTlsCert(u)

SpecTLS == InitTLS /\ [][NextTLS]_vars

----------------------------------------------------------------------------
(* Certificates and the truststore                                         *)

\* the participants that u sees: itself and the remote units of its relations
Participants(u) ==
    {x \in Rels \X Units :
        /\ x[1] \in SeqToSet(relations_of(relations, u))
        /\ x[2] \in UnitsIn(x[1])
        /\ (x[2] = u \/ AppOf[x[2]] # AppOf[u])}

\* the certificates that the participants of u publish
PublishedCerts(u) ==
    {data[x[1]][x[2]]["tls_cert"] :
        x \in {y \in Participants(u) :
                 /\ "tls_cert" \in DOMAIN data[y[1]][y[2]]
                 /\ data[y[1]][y[2]]["tls_cert"] # ""}}

\* the values of tls_cert in the data of the participants of u, the empty
\* string included
PublishedValues(u) ==
    {data[x[1]][x[2]]["tls_cert"] :
        x \in {y \in Participants(u) : "tls_cert" \in DOMAIN data[y[1]][y[2]]}}

NoOwnCert(u) ==
    \A r \in SeqToSet(relations_of(relations, u)) :
       Get(data[r][u], "tls_cert", "") = ""

\* _get_all_tls_cert on u, in the current state, is a no-op ending with exc
NoOpWith(u, exc) ==
    LET e == get_all_tls_cert(state, data, truststore, relations, u)
    IN e.exc = exc /\ e.st = state /\ e.ts = truststore /\ e.dat = data

\* the last call ran _get_all_tls_cert to the end with TLS enabled
Rebuilt ==
    /\ ret.op \in {"set_TLS_auth", "on_listener_relation_changed",
                   "_get_all_tls_cert"}
    /\ ret.out.kind = "trusted"
    /\ ret.exc = NoExc
    /\ PublishedCerts(ret.unit) # {}

\* C16: on a unit that has published no certificate of its own while another
\* participant has, _get_all_tls_cert raises KafkaRelationBaseTLSNotSetError,
\* builds no truststore and leaves trusted_certs as it is.
C16_TLSNotSetRaised ==
    \A u \in Units :
       (NoOwnCert(u) /\ PublishedCerts(u) # {})
          => NoOpWith(u, "KafkaRelationBaseTLSNotSetError")

\* relation-changed was handled on the provider unit, which had no certificate
\* while the remote unit of the second relation instance had one
C16_Witness ==
    /\ ret.op = "on_listener_relation_changed" /\ ret.unit = TlsProvider
    /\ ret.exc = "KafkaRelationBaseTLSNotSetError"
    /\ relations = TlsRels
    /\ NoOwnCert(TlsProvider)
    /\ Get(data["r2"]["connect/0"], "tls_cert", "") = "certB"
    /\ Get(data["r1"]["test/0"], "tls_cert", "") = ""
    /\ truststore[TlsProvider] = NoStore

\* C17: while no participant of a unit has published a certificate,
\* _get_all_tls_cert raises nothing, builds no truststore and leaves
\* trusted_certs as it is.
C17_NoCertNoOp ==
    \A u \in Units : PublishedCerts(u) = {} => NoOpWith(u, NoExc)

\* C17 with a relation instance established: while no participant of a unit
\* with a relation instance has published a certificate, _get_all_tls_cert
\* raises nothing, builds no truststore and leaves trusted_certs as it is.
C17_NoCertNoOpInRelation ==
    \A u \in Units :
       (relations_of(relations, u) # <<>> /\ PublishedCerts(u) = {})
          => NoOpWith(u, NoExc)

\* _get_all_tls_cert returned on the provider unit, which had published the
\* empty string as certificate in both relation instances and nobody else any
C17_Witness ==
    /\ ret.op = "_get_all_tls_cert" /\ ret.unit = TlsProvider
    /\ ret.exc = NoExc
    /\ relations = TlsRels
    /\ PublishedCerts(TlsProvider) = {}
    /\ Get(data["r1"][TlsProvider], "tls_cert", "none") = ""
    /\ truststore[TlsProvider] = NoStore

\* C18: after a run of _get_all_tls_cert with TLS enabled, the certificates
\* handed to the truststore builder include the certificate of every
\* participant that publishes one, in every relation instance.
C18_AllCertsTrusted ==
    Rebuilt => PublishedCerts(ret.unit) \subseteq
                  SeqToSet(truststore[ret.unit].certs)

\* C19: after a run of _get_all_tls_cert with TLS enabled, no certificate
\* occurs twice in trusted_certs or in the list handed to the builder.
C19_CertsDeduplicated ==
    Rebuilt =>
       LET tc == state[ret.unit].trusted_certs
           bc == truststore[ret.unit].certs
       IN /\ \A i, j \in 1..Len(tc) : tc[i] = tc[j] => i = j
          /\ \A i, j \in 1..Len(bc) : bc[i] = bc[j] => i = j

\* C20: after a run of _get_all_tls_cert with TLS enabled, trusted_certs holds
\* only values that a participant publishes as tls_cert at that moment, and
\* the truststore is built from exactly these with the stored path and
\* password.
C20_TrustedSetRederived ==
    Rebuilt =>
       LET u == ret.unit IN
       /\ SeqToSet(state[u].trusted_certs) \subseteq PublishedValues(u)
       /\ truststore[u] = CreateTruststore(state[u].ts_path, state[u].ts_pwd,
                                           Split(state[u].trusted_certs))

\* the run dropped certB, trusted before and no longer published by anybody
C20_Witness ==
    /\ Rebuilt /\ ret.op = "on_listener_relation_changed"
    /\ "certB" \in SeqToSet(ret.out.val.prev)
    /\ "certB" \notin PublishedCerts(ret.unit)
    /\ state[ret.unit].trusted_certs = <<"certA">>

----------------------------------------------------------------------------
(* Relation data with the application namespaces                           *)

\* the names a relation instance holds data of: its units and both
\* applications
NamesIn(r) == UnitsIn(r) \cup {"kafka", RemoteApp[r]}

BusData == [r \in Rels |-> [n \in NamesIn(r) |-> EmptyDict]]

\* what a call did to the relation data: the data after the call, the
\* assignments and deletions it executed as (relation, name, key), the
\* returned value and the exception
Sent(dat, writes, out, exc) ==
    [dat |-> dat, writes |-> writes, out |-> out, exc |-> exc]

\* r.data[n][key] = val for every r of rs
Assign(dat, rs, n, key, val) ==
    [r \in Rels |-> IF r \in rs THEN [dat[r] EXCEPT ![n] = SetItem(@, key, val)]
                    ELSE dat[r]]

Keys(rs, n, key) == {<<r, n, key>> : r \in rs}

----------------------------------------------------------------------------
(* RelationManagerBase                                                     *)

\* values handed to send: a str, a bool or a dict
SendValue(kind, val) == [kind |-> kind, val |-> val]

\* json.dumps(value) for a dict, str(value) otherwise
send_str(value) ==
    CASE value.kind = "dict" -> json_dumps(value.val)
      [] value.kind = "bool" -> str(value.val)
      [] OTHER -> value.val

\* the comparison left out: no stored value ever counts as equal
same_as_stored_never(d, field, value) == FALSE

\* v == r.data[rel_obj].get(field, "")
same_as_stored(d, field, value) ==
    IF field \in DOMAIN d THEN d[field] = send_str(value)
    ELSE value.kind = "str" /\ value.val = ""

\* RelationManagerBase.send; rel is "none" or the relation instance targeted
send(dat, rels, u, field, value, rel, is_app) ==
    IF relations_of(rels, u) = <<>> /\ rel = "none"
    THEN Sent(dat, {}, FALSE, NoExc)
    ELSE IF is_app /\ ~is_leader(u) THEN Sent(dat, {}, FALSE, NoExc)
    ELSE LET relation_ == IF rel = "none" THEN SeqToSet(relations_of(rels, u))
                          ELSE {rel}
             rel_obj == IF is_app THEN AppOf[u] ELSE u
             ws == {r \in relation_ :
                      ~same_as_stored(dat[r][rel_obj], field, value)}
         IN Sent(Assign(dat, ws, rel_obj, field, send_str(value)),
                 Keys(ws, rel_obj, field), ws # {}, NoExc)

\* RelationManagerBase.send_app
send_app(dat, rels, u, field, value, rel) ==
    send(dat, rels, u, field, value, rel, TRUE)

----------------------------------------------------------------------------
(* SpecSend: the units of the provider application send fields through     *)
(* their relation manager while the relation instances are established     *)

SendRels == {"r1", "r2"}

SendTopics == ("topics" :> "t1")

SendCall(id, field, value, is_app) ==
    [id |-> id, field |-> field, value |-> value, is_app |-> is_app]

\* the calls: a name for the record of the call, the field, the value, and
\* whether the field is sent with send_app
SendCalls ==
    {SendCall("url=u1", "url", SendValue("str", "u1"), FALSE),
     SendCall("url=", "url", SendValue("str", ""), FALSE),
     SendCall("flag=True", "flag", SendValue("bool", TRUE), TRUE),
     SendCall("cfg={topics}", "cfg", SendValue("dict", SendTopics), TRUE)}

\* the record of a call on the relation data
BusCall(s, op, u, id) ==
    /\ data' = s.dat
    /\ ret' = [op |-> op, unit |-> u, arg |-> id, exc |-> s.exc,
               args |-> NoArgs,
               out |-> Out("sent", [writes |-> s.writes, result |-> s.out]),
               run |-> 0]
    /\ UNCHANGED <<relations, state, truststore, nwrites, leader, machine>>

SendId(c, rel) == c.id \o "," \o rel

Send(u, c, rel) ==
    /\ u \in ProviderUnits
    /\ rel = "none" \/ rel \in relations
    /\ IF c.is_app
       THEN BusCall(send_app(data, relations, u, c.field, c.value, rel),
                    "send", u, SendId(c, rel))
       ELSE BusCall(send(data, relations, u, c.field, c.value, rel, FALSE),
                    "send", u, SendId(c, rel))

\* the units right after construction, the relation data with the
\* application namespaces
InitBus ==
    /\ relations = {}
    /\ data = BusData
    /\ state = [u \in Units |->
                  IF u \in ProviderUnits THEN ProviderInit("ipw", "epw", "bpw")
                  ELSE RequirerInit("pw1")]
    /\ truststore = [u \in Units |-> NoStore]
    /\ ret = NoCall
    /\ nwrites = [u \in Units |-> 0]
    /\ leader = "kafka/0"
    /\ machine = NoMachine

NextSend ==
    \/ \E r \in SendRels : RelationCreated(r)
    \/ \E u \in ProviderUnits, c \in SendCalls, rel \in SendRels \cup {"none"} :
          Send(u, c, rel)

SpecSend == InitBus /\ [][NextSend]_vars

----------------------------------------------------------------------------
(* send and send_app                                                       *)

\* the relation instances a send of unit u with `rel` targets
SendTargets(u, rel) ==
    IF rel = "none" THEN SeqToSet(relations_of(relations, u)) ELSE {rel}

\* the text r holds for `field` under name n, "" when it holds none, is the
\* string of the value
HoldsText(dat, r, n, c) ==
    IF c.field \in DOMAIN dat[r][n] THEN dat[r][n][c.field] = send_str(c.value)
    ELSE c.value.kind = "str" /\ c.value.val = ""

\* C29: send writes the string of the value to exactly the targeted relation
\* instances whose stored value differs and returns True exactly when it
\* wrote; without a relation instance, with is_app on a unit that is not the
\* leader, or with the value stored everywhere it writes nothing and returns
\* False, and so does a second send of the same field and value.
C29_SendOnlyDifferences ==
    [][\A u \in ProviderUnits, c \in SendCalls, rel \in SendRels \cup {"none"} :
         (ret'.op = "send" /\ ret'.unit = u /\ ret'.arg = SendId(c, rel))
         => LET n == IF c.is_app THEN AppOf[u] ELSE u
                differ == {r \in SendTargets(u, rel) :
                             ~HoldsText(data, r, n, c)}
                refused == \/ (relations_of(relations, u) = <<>> /\ rel = "none")
                           \/ (c.is_app /\ ~is_leader(u))
                wrote == IF refused THEN {} ELSE differ
            IN /\ ret'.exc = NoExc
               /\ ret'.out.val.writes = Keys(wrote, n, c.field)
               /\ ret'.out.val.result = (wrote # {})
               /\ data' = Assign(data, wrote, n, c.field, send_str(c.value))
               /\ \A r \in wrote : data'[r][n][c.field] = send_str(c.value)
               /\ (ret.op = "send" /\ ret.unit = u /\ ret.arg = ret'.arg)
                     => ret'.out.val.result = FALSE
      ]_vars

\* the leader sent a dict to the application namespace with r1 holding its
\* JSON text already and r2 not: only r2 was written
C29_Witness ==
    /\ ret.op = "send" /\ ret.unit = Provider
    /\ ret.arg = SendId(CHOOSE c \in SendCalls : c.field = "cfg", "none")
    /\ ret.out.val.result = TRUE
    /\ ret.out.val.writes = {<<"r2", "kafka", "cfg">>}
    /\ relations = {"r1", "r2"}
    /\ data["r1"]["kafka"]["cfg"] = json_dumps(SendTopics)
    /\ data["r2"]["kafka"]["cfg"] = json_dumps(SendTopics)

----------------------------------------------------------------------------
(* Application-scoped fields: schema registry, connect, REST, KSQL         *)

\* the body shared by schema_url, set_converter and
\* set_enhanced_avro_support: key = v in r.data[self.model.app] of every
\* relation instance whose stored value, "" when absent, differs
set_app_field(dat, rels, u, key, v) ==
    IF relations_of(rels, u) = <<>> THEN Sent(dat, {}, NoOut, NoExc)
    ELSE IF ~is_leader(u) THEN Sent(dat, {}, NoOut, NoExc)
    ELSE LET ws == {r \in SeqToSet(relations_of(rels, u)) :
                      v # Get(dat[r][AppOf[u]], key, "")}
         IN Sent(Assign(dat, ws, AppOf[u], key, v), Keys(ws, AppOf[u], key),
                 NoOut, NoExc)

\* KafkaSchemaRegistryProvidesRelation.schema_url (setter)
schema_url(dat, rels, u, v) == set_app_field(dat, rels, u, "url", v)

\* KafkaSchemaRegistryProvidesRelation.set_converter
set_converter(dat, rels, u, converter) ==
    set_app_field(dat, rels, u, "converter", converter)

\* KafkaSchemaRegistryProvidesRelation.set_enhanced_avro_support
set_enhanced_avro_support(dat, rels, u, enhanced_avro) ==
    set_app_field(dat, rels, u, "enhanced_avro", str(enhanced_avro))

\* "{}://{}:{}".format(prot or "https", url or get_hostname(advertise_addr),
\* port)
format_url(u, url, port_, prot) ==
    (IF prot # "" THEN prot ELSE "https") \o "://" \o
    (IF url # "" THEN url ELSE AdvertiseHost[u]) \o ":" \o port_

\* KafkaSchemaRegistryProvidesRelation.set_schema_url
set_schema_url(dat, rels, u, url, port_, prot) ==
    IF relations_of(rels, u) = <<>> THEN Sent(dat, {}, NoOut, NoExc)
    ELSE IF ~is_leader(u) THEN Sent(dat, {}, NoOut, NoExc)
    ELSE LET rs == SeqToSet(relations_of(rels, u))
         IN Sent(Assign(dat, rs, AppOf[u], "url", format_url(u, url, port_, prot)),
                 Keys(rs, AppOf[u], "url"), NoOut, NoExc)

\* KafkaConnectProvidesRelation.rest_url (setter): only self.relation, and
\* only when it holds a url already
rest_url(dat, rels, u, v) ==
    IF ~is_leader(u) THEN Sent(dat, {}, NoOut, NoExc)
    ELSE IF relations_of(rels, u) = <<>> THEN Sent(dat, {}, NoOut, NoExc)
    ELSE LET r == Head(relation(rels, u)) IN
         IF "url" \notin DOMAIN dat[r][AppOf[u]]
         THEN Sent(dat, {}, NoOut, NoExc)
         ELSE Sent(Assign(dat, {r}, AppOf[u], "url", v),
                   Keys({r}, AppOf[u], "url"), NoOut, NoExc)

\* KafkaRESTRelation.url (setter)
KafkaRESTRelation_url(dat, rels, u, v) ==
    IF relations_of(rels, u) = <<>> THEN Sent(dat, {}, NoOut, NoExc)
    ELSE LET rs == SeqToSet(relations_of(rels, u))
         IN Sent(Assign(dat, rs, AppOf[u], "url", v),
                 Keys(rs, AppOf[u], "url"), NoOut, NoExc)

\* KafkaKsqlRelation.url (setter): compares with the url of the remote
\* application r.app and assigns the one of its own application
KafkaKsqlRelation_url(dat, rels, u, v) ==
    IF relations_of(rels, u) = <<>> THEN Sent(dat, {}, NoOut, NoExc)
    ELSE LET ws == {r \in SeqToSet(relations_of(rels, u)) :
                      Get(dat[r][RemoteApp[r]], "url", "") # v}
         IN Sent(Assign(dat, ws, AppOf[u], "url", v),
                 Keys(ws, AppOf[u], "url"), NoOut, NoExc)

----------------------------------------------------------------------------
(* SpecApp: the leader and a follower of the provider application set the  *)
(* application-scoped fields                                               *)

AppRels == {"r1", "r2"}

AppUrls == {"u1", "u2"}

AppConverters == {"c1"}

AppFlag == CHOOSE c \in SendCalls : c.id = "flag=True"

\* the leader of the remote application publishes its url
RemoteAppUrl(r, v) ==
    /\ r \in relations
    /\ data' = [data EXCEPT ![r][RemoteApp[r]] = SetItem(@, "url", v)]
    /\ ret' = NoCall
    /\ UNCHANGED <<relations, state, truststore, nwrites, leader, machine>>

SendApp(u, rel) ==
    /\ u \in ProviderUnits
    /\ rel = "none" \/ rel \in relations
    /\ BusCall(send_app(data, relations, u, AppFlag.field, AppFlag.value, rel),
               "send_app", u, SendId(AppFlag, rel))

SchemaUrl(u, v) ==
    /\ u \in ProviderUnits
    /\ BusCall(schema_url(data, relations, u, v), "schema_url", u, v)

SetConverter(u, v) ==
    /\ u \in ProviderUnits
    /\ BusCall(set_converter(data, relations, u, v), "set_converter", u, v)

SetEnhancedAvroSupport(u, b) ==
    /\ u \in ProviderUnits
    /\ BusCall(set_enhanced_avro_support(data, relations, u, b),
               "set_enhanced_avro_support", u, str(b))

SetSchemaUrl(u, url, port_, prot) ==
    /\ u \in ProviderUnits
    /\ BusCall(set_schema_url(data, relations, u, url, port_, prot),
               "set_schema_url", u, url)

ConnectRestUrl(u, v) ==
    /\ u \in ProviderUnits
    /\ BusCall(rest_url(data, relations, u, v), "rest_url", u, v)

RestUrl(u, v) ==
    /\ u \in ProviderUnits
    /\ BusCall(KafkaRESTRelation_url(data, relations, u, v),
               "KafkaRESTRelation.url", u, v)

KsqlUrl(u, v) ==
    /\ u \in ProviderUnits
    /\ BusCall(KafkaKsqlRelation_url(data, relations, u, v),
               "KafkaKsqlRelation.url", u, v)

NextApp ==
    \/ \E r \in AppRels : RelationCreated(r)
    \/ \E r \in AppRels : RemoteAppUrl(r, "u1")
    \/ \E u \in ProviderUnits, rel \in AppRels \cup {"none"} : SendApp(u, rel)
    \/ \E u \in ProviderUnits, v \in AppUrls : SchemaUrl(u, v)
    \/ \E u \in ProviderUnits, v \in AppConverters : SetConverter(u, v)
    \/ \E u \in ProviderUnits : SetEnhancedAvroSupport(u, TRUE)
    \/ \E u \in ProviderUnits : SetSchemaUrl(u, "", "8081", "")
    \/ \E u \in ProviderUnits, v \in AppUrls : ConnectRestUrl(u, v)
    \/ \E u \in ProviderUnits, v \in AppUrls : RestUrl(u, v)
    \/ \E u \in ProviderUnits, v \in AppUrls : KsqlUrl(u, v)

SpecApp == InitBus /\ [][NextApp]_vars

----------------------------------------------------------------------------
(* Writers of the application namespace                                    *)

\* the operations that assign in the namespace of the application
AppWriters ==
    {"send_app", "schema_url", "set_converter", "set_enhanced_avro_support",
     "set_schema_url", "rest_url", "KafkaRESTRelation.url",
     "KafkaKsqlRelation.url"}

\* C22: an operation that writes application-scoped fields, run on a unit
\* that is not the leader, assigns nothing and leaves the relation data as it
\* was.
C22_OnlyLeaderWritesApp ==
    [][(ret'.op \in AppWriters /\ ~is_leader(ret'.unit))
         => (ret'.out.val.writes = {} /\ data' = data)]_vars

----------------------------------------------------------------------------
(* Unit-scoped fields: MDS credentials and url, tls_cert, request          *)

\* `not self.unit.is_leader`: the bound method, never called, is true on
\* every unit
mds_unit_is_leader(u) == TRUE

\* u.name.startswith(self.unit.app.name), on the unit names of the deployment
name_startswith(u, app) == AppOf[u] = app

\* u.name.replace("/", "_")
replace_slash(u) ==
    CASE u = "test/0" -> "test_0"
      [] u = "test/1" -> "test_1"
      [] u = "connect/0" -> "connect_0"
      [] u = "schema-registry/0" -> "schema-registry_0"
      [] u = "kafka/0" -> "kafka_0"
      [] OTHER -> "kafka_1"

AuthKeys == {"user", "password", "auth_mechanism", "cred_provider"}

\* the (relation, remote unit) pairs of the loops of set_auth and unset_auth,
\* the units of the own application skipped
auth_targets(rels, k) ==
    {x \in SeqToSet(loop_pairs(relations_of(rels, k), k)) :
        ~name_startswith(x[2], AppOf[k])}

\* the four assignments of set_auth in r.data[u]; pw is genRandomPassword(12)
auth_record(d, u, pw) ==
    SetItem(SetItem(SetItem(SetItem(d, "user", replace_slash(u)),
                            "password", pw),
                    "auth_mechanism", "JETTY_AUTH"),
            "cred_provider", "BASIC")

\* KafkaMDSProvidesRelation.set_auth; pws gives the password generated for
\* each unit
set_auth(dat, rels, k, pws) ==
    IF ~mds_unit_is_leader(k) \/ relations_of(rels, k) = <<>>
    THEN Sent(dat, {}, NoOut, NoExc)
    ELSE LET ts == auth_targets(rels, k)
         IN Sent([r \in Rels |->
                    [n \in DOMAIN dat[r] |->
                       IF <<r, n>> \in ts
                       THEN auth_record(dat[r][n], n, pws[n])
                       ELSE dat[r][n]]],
                 {<<x[1], x[2], key>> : x \in ts, key \in AuthKeys},
                 NoOut, NoExc)

\* KafkaMDSProvidesRelation.unset_auth: r.data[u].pop(key, None)
unset_auth(dat, rels, k) ==
    IF ~mds_unit_is_leader(k) \/ relations_of(rels, k) = <<>>
    THEN Sent(dat, {}, NoOut, NoExc)
    ELSE LET ts == auth_targets(rels, k)
         IN Sent([r \in Rels |->
                    [n \in DOMAIN dat[r] |->
                       IF <<r, n>> \in ts
                       THEN [key \in DOMAIN dat[r][n] \ AuthKeys |->
                               dat[r][n][key]]
                       ELSE dat[r][n]]],
                 {y \in {<<x[1], x[2], key>> : x \in ts, key \in AuthKeys} :
                     y[3] \in DOMAIN dat[y[1]][y[2]]},
                 NoOut, NoExc)

\* KafkaMDSProvidesRelation.on_mds_relation_changed with event.relation = r,
\* the manager constructed with protocol "https", port 8090 and no hostname
on_mds_relation_changed(dat, k, r) ==
    Sent(Assign(dat, {r}, k, "url",
                "https" \o "://" \o BindingHost[k] \o ":" \o "8090"),
         Keys({r}, k, "url"), NoOut, NoExc)

\* the assignments KafkaRelationBase.set_TLS_auth executes: tls_cert in every
\* relation instance, whatever is stored
set_TLS_auth_writes(rels, u) ==
    Keys(SeqToSet(relations_of(rels, u)), u, "tls_cert")

\* the assignments set_request(req) executes, j = json.dumps(req)
set_request_writes(st, rels, u, j) ==
    IF j = st[u].request THEN {}
    ELSE Keys(SeqToSet(relations_of(rels, u)), u, "request")

\* the assignments KafkaListenerRequiresRelation.set_TLS_auth executes before
\* the call of the base method raises
requirer_set_TLS_auth_writes(st, rels, u, cert_chain) ==
    IF ~loads_is_dict(st[u].request) THEN {}
    ELSE set_request_writes(st, rels, u,
                            json_dumps(SetItem(st[u].request.obj, "cert",
                                               cert_chain)))

----------------------------------------------------------------------------
(* SpecUnit: the units write their credentials, urls, certificates and     *)
(* requests                                                                *)

UnitRels == {"r1", "r2"}

\* genRandomPassword(12) for each remote unit: two of the possible draws
MdsPasswords ==
    {[u \in RequirerUnits |-> "pw1"],
     [u \in RequirerUnits |-> IF u = "test/0" THEN "pw2" ELSE "pw1"]}

MdsSetAuth(k, pws) ==
    /\ k \in ProviderUnits
    /\ BusCall(set_auth(data, relations, k, pws), "set_auth", k, "")

MdsUnsetAuth(k) ==
    /\ k \in ProviderUnits
    /\ BusCall(unset_auth(data, relations, k), "unset_auth", k, "")

MdsRelationChanged(k, r) ==
    /\ k \in ProviderUnits
    /\ r \in relations
    /\ BusCall(on_mds_relation_changed(data, k, r), "on_mds_relation_changed",
               k, r)

\* the record of a call of set_TLS_auth: run is 2 when the call repeats the
\* previous one (same unit, same certificate chain), 1 otherwise
TLSAuthCall(e, w, u, c) ==
    /\ state' = e.st
    /\ data' = e.dat
    /\ truststore' = e.ts
    /\ ret' = [op |-> "set_TLS_auth", unit |-> u, arg |-> c, exc |-> e.exc,
               args |-> NoArgs,
               out |-> Out("sent", [writes |-> w, result |-> NoOut]),
               run |-> IF ret.op = "set_TLS_auth" /\ ret.unit = u /\ ret.arg = c
                       THEN 2 ELSE 1]
    /\ UNCHANGED <<relations, nwrites, leader, machine>>

UnitSetTLSAuth(u, c) ==
    /\ u \in Units
    /\ IF u \in ProviderUnits
       THEN TLSAuthCall(base_set_TLS_auth(state, data, truststore, relations,
                                          u, c, "/ts.jks", "tspw"),
                        set_TLS_auth_writes(relations, u), u, c)
       ELSE TLSAuthCall(requirer_set_TLS_auth(state, data, truststore,
                                              relations, u, c),
                        requirer_set_TLS_auth_writes(state, relations, u, c),
                        u, c)

NextUnit ==
    \/ \E r \in UnitRels : RelationCreated(r)
    \/ \E k \in ProviderUnits, pws \in MdsPasswords : MdsSetAuth(k, pws)
    \/ \E k \in ProviderUnits : MdsUnsetAuth(k)
    \/ \E k \in ProviderUnits, r \in UnitRels : MdsRelationChanged(k, r)
    \/ \E u \in {Provider, Requirer}, c \in TlsCerts : UnitSetTLSAuth(u, c)

SpecUnit == InitBus /\ [][NextUnit]_vars

----------------------------------------------------------------------------
(* Writes of set_TLS_auth and owners of the unit namespaces                *)

\* C21: a call of set_TLS_auth that repeats the previous call, same unit and
\* same certificate chain, executes no assignment of tls_cert or request.
C21_SecondCallWritesNothing ==
    [][(ret'.op = "set_TLS_auth" /\ ret'.run = 2)
         => ret'.out.val.writes = {}]_vars

\* the operations that assign unit-scoped fields
UnitWriters ==
    {"set_auth", "unset_auth", "on_mds_relation_changed", "set_TLS_auth"}

\* C23: an operation that writes unit-scoped fields assigns and deletes only
\* in the namespace of the unit it runs on.
C23_OwnNamespaceOnly ==
    [][ret'.op \in UnitWriters
         => /\ \A w \in ret'.out.val.writes : w[2] = ret'.unit
            /\ \A r \in Rels : \A n \in NamesIn(r) :
                  n # ret'.unit => data'[r][n] = data[r][n]]_vars

----------------------------------------------------------------------------
(* SpecLead: the leadership of the provider application moves between its  *)
(* units, and the unit that holds it allocates the listeners               *)

LeadRels == {"r1", "r2"}

LeadRemotes == {"test/0", "connect/0"}

LeadRequests == {PlainReq, SaslReq}

LeadArgs == [keystore_path : KsPaths, keystore_pwd : KsPwds,
             get_default : BOOLEAN, clientauth : {FALSE}]

\* the three genRandomPassword(12) results of the constructor of each unit
LeadPasswords == [ProviderUnits -> [internal : Passwords, external : Passwords,
                                    broker : Passwords]]

\* the runtime elects another unit of the provider application
LeaderElected(k) ==
    /\ k \in ProviderUnits
    /\ k # leader
    /\ leader' = k
    /\ UNCHANGED <<relations, data, state, truststore, ret, nwrites, machine>>

\* get_unit_listener on the unit that holds the leadership
LeaderAllocates(k, args) ==
    /\ k = leader
    /\ GetUnitListener(k, args)

InitLead ==
    /\ relations = {}
    /\ data = EmptyData
    /\ \E pws \in LeadPasswords :
         state = [u \in Units |->
                    IF u \in ProviderUnits
                    THEN ProviderInit(pws[u].internal, pws[u].external,
                                      pws[u].broker)
                    ELSE RequirerInit("pw1")]
    /\ truststore = [u \in Units |-> NoStore]
    /\ ret = NoCall
    /\ nwrites = [u \in Units |-> 0]
    /\ leader \in ProviderUnits
    /\ machine = NoMachine

NextLead ==
    \/ \E r \in LeadRels : RelationCreated(r)
    \/ \E r \in LeadRels, u \in LeadRemotes, req \in LeadRequests :
          RemotePublish(r, u, req)
    \/ \E r \in LeadRels, u \in LeadRemotes : RemoteClear(r, u)
    \/ \E k \in ProviderUnits : LeaderElected(k)
    \/ \E k \in ProviderUnits, args \in LeadArgs : LeaderAllocates(k, args)

SpecLead == InitLead /\ [][NextLead]_vars

----------------------------------------------------------------------------
(* Allocation across a change of the leader                                *)

\* two allocation maps with the same listener names, endpoints, security
\* protocols and plaintext passwords
SameAllocation(a, b) ==
    /\ DOMAIN a = DOMAIN b
    /\ \A n \in DOMAIN a :
          /\ a[n].endpoint = b[n].endpoint
          /\ a[n].secprot = b[n].secprot
          /\ a[n].plaintext_pwd = b[n].plaintext_pwd

\* C24: the allocation the new leader computes, the requests and the
\* arguments being those of the last run of the previous leader, is the
\* allocation the previous leader computed.
C24_SameAllocationAfterElection ==
    [][(/\ ret.op = "get_unit_listener" /\ ret.exc = NoExc
        /\ ret'.op = "get_unit_listener" /\ ret'.exc = NoExc
        /\ ret'.unit # ret.unit /\ ret'.args = ret.args)
         => SameAllocation(ret.out.val, ret'.out.val)]_vars

----------------------------------------------------------------------------
(* Renumbering of the ports                                                *)

\* the request of remote unit x[2] in relation x[1] is accepted
IsAccepted(dat, x) ==
    /\ "request" \in DOMAIN dat[x[1]][x[2]]
    /\ dat[x[1]][x[2]]["request"].obj # EmptyDict

\* the relation data after remote unit x[2] removed its request from x[1],
\* or published one when it had none accepted
Toggled(dat, x) ==
    IF IsAccepted(dat, x)
    THEN [dat EXCEPT ![x[1]][x[2]] = DelItem(@, "request")]
    ELSE [dat EXCEPT ![x[1]][x[2]] = SetItem(@, "request", json_dumps(PlainReq))]

\* C25: after a run of the leader, when the leader of an application earlier
\* in iteration order removes its request or publishes one, the next run
\* gives every later requesting application a port one lower or one higher:
\* the ports follow the position among the requests visible at the run.
C25_LaterPortsRenumbered ==
    (Allocated(Provider) /\ ret.out.kind = "json") =>
       LET ps == loop_pairs(relations_of(relations, Provider), Provider)
           name(x) == replace_dash(AppOf[x[2]])
       IN \A i, j \in 1..Len(ps) :
             (/\ i < j
              /\ ps[i][2] \in Leaders /\ ps[j][2] \in Leaders
              /\ IsAccepted(data, ps[j]))
             => LET next == get_unit_listener(state, Toggled(data, ps[i]),
                                              relations, Provider, ret.args)
                IN /\ next.exc = NoExc
                   /\ PortOf(next.out.val[name(ps[j])]) =
                         PortOf(ret.out.val[name(ps[j])])
                            + (IF IsAccepted(data, ps[i]) THEN -1 ELSE 1)

\* the leader allocated for 'connect' and 'schema-registry' with the
\* relation of 'test' established and 'test' without a request
C25_Witness ==
    /\ Allocated(Provider) /\ ret.out.kind = "json"
    /\ relations = Rels
    /\ "request" \notin DOMAIN data["r1"]["test/0"]
    /\ IsAccepted(data, <<"r2", "connect/0">>)
    /\ IsAccepted(data, <<"r3", "schema-registry/0">>)
    /\ DOMAIN ret.out.val = {"connect", "schema_registry"}

----------------------------------------------------------------------------
(* ZookeeperRelation (wand/apps/relations/zookeeper.py)                    *)

\* sep.join(l) on a list of str
RECURSIVE join_str(_, _)
join_str(l, sep) ==
    IF l = <<>> THEN ""
    ELSE IF Len(l) = 1 THEN l[1]
    ELSE l[1] \o sep \o join_str(Tail(l), sep)

ZkRel == "zookeeper"

\* the unit the handlers run on and the remote units of self._relation, in
\* the order of self._relation.units
ZkThis == "this"

ZkPeers == <<"other", "third">>

ZkUnits == {ZkThis} \cup SeqToSet(ZkPeers)

\* get_hostname(self.advertise_addr) of each unit
ZkHost == ("this" :> "2.2.2.2") @@ ("other" :> "1.1.1.1") @@
          ("third" :> "3.3.3.3")

\* ZookeeperProvidesRelation(port=2182)
zk_port == 2182

\* "{}:{}".format(hostname, self._port)
zk_endpoint(u) == ZkHost[u] \o ":" \o ToString(zk_port)

\* ZookeeperRelation.__init__
ZkInit ==
    [zk_list |-> "", mtls_trusted_certs |-> "", mtls_ts_path |-> "",
     mtls_ts_pwd |-> "", mtls_cert |-> "", trusted_certs |-> ""]

\* ZookeeperRelation.is_mTLS_enabled: "True", "False" or the exception
is_mTLS_enabled(dat, k) ==
    LET with_cert == SelectSeq(ZkPeers,
                               LAMBDA u : Get(dat[ZkRel][u], "mtls_cert", "") # "")
    IN IF with_cert = <<>> THEN "False"
       ELSE IF Get(dat[ZkRel][k], "mtls_cert", "") = ""
       THEN "ZookeeperRelationMTLSNotSetError"
       ELSE "True"

\* ZookeeperRelation._get_all_mtls_cert: the joined text is stored as
\* state.trusted_certs and the truststore is built from mtls_trusted_certs
get_all_mtls_cert(st, dat, ts, k) ==
    LET en == is_mTLS_enabled(dat, k) IN
    IF en = "False" THEN Eff(st, dat, ts, NoExc)
    ELSE IF en # "True" THEN Eff(st, dat, ts, en)
    ELSE LET tc == st[k].mtls_cert \o " " \o
                   join_str([i \in 1..Len(ZkPeers) |->
                               Get(dat[ZkRel][ZkPeers[i]], "mtls_cert", "")],
                            " ")
             st2 == [st EXCEPT ![k].trusted_certs = tc]
         IN Eff(st2, dat,
                [ts EXCEPT ![k] = CreateTruststore(st2[k].mtls_ts_path,
                                                   st2[k].mtls_ts_pwd,
                                                   <<st2[k].mtls_trusted_certs>>)],
                NoExc)

\* ZookeeperRelation.set_mTLS_auth
set_mTLS_auth(st, dat, ts, k, cert_chain, ts_path_, ts_pwd_) ==
    LET dat2 == [dat EXCEPT ![ZkRel][k] = SetItem(@, "mtls_cert", cert_chain)]
        st2 == [st EXCEPT ![k].mtls_ts_path = ts_path_,
                          ![k].mtls_ts_pwd = ts_pwd_,
                          ![k].mtls_trusted_certs = cert_chain,
                          ![k].mtls_cert = cert_chain]
    IN get_all_mtls_cert(st2, dat2, ts, k)

\* the loop of ZookeeperRelation.on_zookeeper_relation_changed over the
\* remote units: [zk_list, exc]; data[u]["endpoint"] raises KeyError when the
\* unit has published none
RECURSIVE zk_loop(_, _, _)
zk_loop(us, acc, dat) ==
    IF us = <<>> \/ acc.exc # NoExc THEN acc
    ELSE LET d == dat[ZkRel][Head(us)] IN
         IF "endpoint" \notin DOMAIN d
         THEN [acc EXCEPT !.exc = "KeyError"]
         ELSE IF d["endpoint"] = "" THEN zk_loop(Tail(us), acc, dat)
         ELSE zk_loop(Tail(us),
                      [acc EXCEPT !.zk_list = Append(@, d["endpoint"])], dat)

\* ZookeeperRelation.on_zookeeper_relation_changed
base_on_zookeeper_relation_changed(st, dat, ts, k) ==
    LET acc == zk_loop(ZkPeers, [zk_list |-> <<>>, exc |-> NoExc], dat) IN
    IF acc.exc # NoExc THEN Eff(st, dat, ts, acc.exc)
    ELSE get_all_mtls_cert([st EXCEPT ![k].zk_list = join_str(acc.zk_list, ",")],
                           dat, ts, k)

\* ZookeeperProvidesRelation.on_zookeeper_relation_joined, hostname not given
on_zookeeper_relation_joined(st, dat, ts, k) ==
    Eff(st, [dat EXCEPT ![ZkRel][k] = SetItem(@, "endpoint", zk_endpoint(k))],
        ts, NoExc)

\* ZookeeperProvidesRelation.on_zookeeper_relation_changed: its first
\* statement calls self.on_zookeper_relation_joined, a name the class does
\* not define
on_zookeeper_relation_changed(st, dat, ts, k) ==
    Eff(st, dat, ts, "AttributeError")

----------------------------------------------------------------------------
(* SpecZk: a zookeeper unit and its two peers                              *)

ZkCall(e, op, u) ==
    /\ state' = e.st
    /\ data' = e.dat
    /\ truststore' = e.ts
    /\ ret' = Returned(op, u, "", e.exc)
    /\ UNCHANGED <<relations, nwrites, leader, machine>>

\* a peer publishes its endpoint, or the empty text
PeerEndpoint(u, has) ==
    /\ u \in SeqToSet(ZkPeers)
    /\ data' = [data EXCEPT ![ZkRel][u] =
                  SetItem(@, "endpoint", IF has THEN zk_endpoint(u) ELSE "")]
    /\ ret' = NoCall
    /\ UNCHANGED <<relations, state, truststore, nwrites, leader, machine>>

\* a peer publishes its certificate
PeerMtlsCert(u, c) ==
    /\ u \in SeqToSet(ZkPeers)
    /\ data' = [data EXCEPT ![ZkRel][u] = SetItem(@, "mtls_cert", c)]
    /\ ret' = NoCall
    /\ UNCHANGED <<relations, state, truststore, nwrites, leader, machine>>

ZkSetMTLSAuth(c) ==
    /\ c \in TlsCerts
    /\ ZkCall(set_mTLS_auth(state, data, truststore, ZkThis, c, "/ts.jks", "tspw"),
              "set_mTLS_auth", ZkThis)

ZkRelationJoined ==
    /\ ZkRel \in relations
    /\ ZkCall(on_zookeeper_relation_joined(state, data, truststore, ZkThis),
              "on_zookeeper_relation_joined", ZkThis)

ZkRelationChanged ==
    /\ ZkRel \in relations
    /\ ZkCall(on_zookeeper_relation_changed(state, data, truststore, ZkThis),
              "on_zookeeper_relation_changed", ZkThis)

\* the handler of the parent class, as a requirer of the relation runs it
ZkBaseRelationChanged ==
    /\ ZkRel \in relations
    /\ ZkCall(base_on_zookeeper_relation_changed(state, data, truststore,
                                                 ZkThis),
              "ZookeeperRelation.on_zookeeper_relation_changed", ZkThis)

InitZk ==
    /\ relations = {ZkRel}
    /\ data = [r \in {ZkRel} |-> [u \in ZkUnits |-> EmptyDict]]
    /\ state = [u \in {ZkThis} |-> ZkInit]
    /\ truststore = [u \in {ZkThis} |-> NoStore]
    /\ ret = NoCall
    /\ nwrites = [u \in {ZkThis} |-> 0]
    /\ leader = ZkThis
    /\ machine = NoMachine

NextZk ==
    \/ \E u \in SeqToSet(ZkPeers), has \in BOOLEAN : PeerEndpoint(u, has)
    \/ \E u \in SeqToSet(ZkPeers) : PeerMtlsCert(u, "certB")
    \/ \E c \in {"certA"} : ZkSetMTLSAuth(c)
    \/ ZkRelationJoined
    \/ ZkRelationChanged
    \/ ZkBaseRelationChanged

SpecZk == InitZk /\ [][NextZk]_vars

----------------------------------------------------------------------------
(* The zookeeper list                                                      *)

\* the endpoints the peers have published, in the order of the relation
PeerEndpoints ==
    SelectSeq([i \in 1..Len(ZkPeers) |->
                 Get(data[ZkRel][ZkPeers[i]], "endpoint", "")],
              LAMBDA e : e # "")

\* C26: after on_zookeeper_relation_changed of the provider the unit has
\* published its endpoint and the stored zk_list is the comma-joined list of
\* its own endpoint followed by the endpoints of the peers.
C26_ZkListSelfFirst ==
    (ret.op = "on_zookeeper_relation_changed" /\ ret.unit = ZkThis) =>
       /\ ret.exc = NoExc
       /\ Get(data[ZkRel][ZkThis], "endpoint", "") = zk_endpoint(ZkThis)
       /\ state[ZkThis].zk_list =
             join_str(<<zk_endpoint(ZkThis)>> \o PeerEndpoints, ",")

----------------------------------------------------------------------------
(* wand.contrib.linux: fixMaybeLocalhost on the hosts file of the machine. *)
(* Hosts and HostsEntry come from the python_hosts package: the file is    *)
(* the list of its address entries, remove_all_matching drops the entries  *)
(* that carry the name, find_all_matching selects them, add appends.       *)
(* Comment and blank lines are carried over untouched and are left out.    *)

\* HostsEntry(entry_type=..., address=..., names=[...])
HostsEntry(entry_type, address, names) ==
    [entry_type |-> entry_type, address |-> address, names |-> names]

\* a host name is the list of its labels; the text is ".".join(labels)
hostname_str(h) == join_str(h, ".")

\* hostname.split(".")[0]
short_name(h) == h[1]

\* hosts.find_all_matching(name=n)
find_all_matching(hosts, n) ==
    SelectSeq(hosts, LAMBDA e : n \in SeqToSet(e.names))

\* hosts.remove_all_matching(name=n): the entries left
remove_all_matching(hosts, n) ==
    SelectSeq(hosts, LAMBDA e : n \notin SeqToSet(e.names))

\* hosts.add([entry])
hosts_add(hosts, entry) == Append(hosts, entry)

\* len(hosts.find_all_matching(name="localhost")) == 0
localhost_missing(hosts) == Len(find_all_matching(hosts, "localhost")) = 0

\* fixMaybeLocalhost(hostname=h, IP=ip): the file written and removed_hosts
fixMaybeLocalhost(hosts, h, ip) ==
    LET h1 == remove_all_matching(hosts, short_name(h))
        h2 == remove_all_matching(h1, hostname_str(h))
        h3 == hosts_add(h2, HostsEntry("ipv4", ip, <<hostname_str(h)>>))
        h4 == IF localhost_missing(h3)
              THEN hosts_add(h3, HostsEntry("ipv4", "127.0.0.1",
                                            <<"localhost">>))
              ELSE h3
    IN [hosts |-> h4,
        removed |-> find_all_matching(hosts, short_name(h))
                    \o find_all_matching(h1, hostname_str(h))]

\* the longest hosts file the machine starts with
MaxHosts == 3

\* the lines a deployed machine comes with
HostsLines ==
    {HostsEntry("ipv4", "127.0.0.1", <<"localhost">>),
     HostsEntry("ipv4", "127.0.0.1", <<"nodetest">>),
     HostsEntry("ipv4", "127.0.1.1", <<"nodetest.maas">>),
     HostsEntry("ipv4", "127.0.0.1", <<"localhost", "nodetest">>),
     HostsEntry("ipv4", "10.0.0.9", <<"other">>),
     HostsEntry("ipv6", "::1", <<"ip6-localhost", "ip6-loopback">>),
     HostsEntry("ipv6", "::1", <<"localhost", "ip6-localhost">>)}

HostsFiles ==
    UNION {[1..n -> HostsLines] : n \in 0..MaxHosts}

HostNames == {<<"nodetest", "maas">>, <<"nodetest">>}

HostIPs == {"1.1.1.1", "10.0.0.9"}

\* get_hostname(ipaddr) resolved h: fixMaybeLocalhost(hostname=h, IP=ipaddr)
FixMaybeLocalhost(h, ip) ==
    /\ LET f == fixMaybeLocalhost(machine.hosts, h, ip) IN
         /\ machine' = [machine EXCEPT !.hosts = f.hosts]
         /\ ret' = [op |-> "fixMaybeLocalhost", unit |-> "kafka/0",
                    arg |-> hostname_str(h), exc |-> NoExc, args |-> NoArgs,
                    out |-> Out("hosts", [hostname |-> h, IP |-> ip,
                                          removed |-> f.removed]),
                    run |-> 0]
    /\ UNCHANGED <<relations, data, state, truststore, nwrites, leader>>

InitHosts ==
    /\ relations = {}
    /\ data = EmptyData
    /\ state = [u \in {"kafka/0"} |-> EmptyDict]
    /\ truststore = [u \in {"kafka/0"} |-> EmptyDict]
    /\ ret = NoCall
    /\ nwrites = [u \in {"kafka/0"} |-> 0]
    /\ leader = "kafka/0"
    /\ machine \in [hosts : HostsFiles]

NextHosts ==
    \E h \in HostNames, ip \in HostIPs : FixMaybeLocalhost(h, ip)

SpecHosts == InitHosts /\ [][NextHosts]_vars

\* the entries of a hosts file that carry the name
Naming(hosts, n) == {i \in DOMAIN hosts : n \in SeqToSet(hosts[i].names)}

\* C27: after fixMaybeLocalhost(hostname, IP) exactly one entry names the
\* hostname and it maps to IP, no entry naming the hostname or its short name
\* is on another address, the entries that name neither are kept, and an
\* entry maps localhost to 127.0.0.1
C27_HostsFixed ==
    [][ret'.op = "fixMaybeLocalhost" =>
         LET h == ret'.out.val.hostname
             ip == ret'.out.val.IP
             new == machine'.hosts
         IN /\ Cardinality(Naming(new, hostname_str(h))) = 1
            /\ \A i \in Naming(new, hostname_str(h))
                      \cup Naming(new, short_name(h)) :
                  new[i].address = ip
            /\ \A i \in DOMAIN machine.hosts :
                  (i \notin Naming(machine.hosts, hostname_str(h))
                             \cup Naming(machine.hosts, short_name(h)))
                  => \E j \in DOMAIN new : new[j] = machine.hosts[i]
            /\ \E i \in Naming(new, "localhost") :
                  new[i].address = "127.0.0.1"]_vars

----------------------------------------------------------------------------
(* wand.security.ssl: PKCS12CreateKeystore. machine.files maps the paths   *)
(* that exist on disk to their content. The steps that leave the process   *)
(* (open, openssl, keytool) fail or not as the environment decides.        *)

ChainTmp == "/tmp/kafka-broker-charm-cert.chain"

KeyTmp == "/tmp/kafka-broker-charm.key"

P12Tmp == "/tmp/kafka-broker-charm.p12"

TmpFiles == {ChainTmp, KeyTmp, P12Tmp}

\* the outcome of a run so far: the files on disk and the exception raised
Disk(files, exc) == [files |-> files, exc |-> exc]

\* os.remove(path)
os_remove(d, path) ==
    IF d.exc # NoExc THEN d
    ELSE IF path \in DOMAIN d.files THEN Disk(DelItem(d.files, path), NoExc)
    ELSE Disk(d.files, "FileNotFoundError")

\* __cleanup(): the three removals in the order of the code
cleanup(files) ==
    os_remove(os_remove(os_remove(Disk(files, NoExc), KeyTmp), P12Tmp),
              ChainTmp)

\* with open(path, "w") as f: f.write(text)
write_file(d, path, text, fails) ==
    IF d.exc # NoExc THEN d
    ELSE IF fails THEN Disk(d.files, "OSError")
    ELSE Disk(SetItem(d.files, path, text), NoExc)

\* subprocess.check_call(cmd): the command writes its output file when it
\* succeeds, and when it fails it has written it or not
check_call(d, path, text, fails, written) ==
    IF d.exc # NoExc THEN d
    ELSE IF fails
         THEN Disk(IF written THEN SetItem(d.files, path, text) ELSE d.files,
                   "CalledProcessError")
    ELSE Disk(SetItem(d.files, path, text), NoExc)

\* the steps of a run that can fail
KeystoreSteps == {"chain", "key", "openssl", "keytool"}

\* PKCS12CreateKeystore(keystore_path, keystore_pwd, ssl_chain, ssl_key);
\* fail is the step that fails ("none": no step), written tells whether the
\* failing command left its output file
PKCS12CreateKeystore(files, path, pwd, ssl_chain, ssl_key, fail, written) ==
    LET d1 == write_file(Disk(files, NoExc), ChainTmp, ssl_chain,
                         fail = "chain")
        d2 == write_file(d1, KeyTmp, ssl_key, fail = "key")
        d3 == check_call(d2, P12Tmp, ssl_chain \o "+" \o ssl_key,
                         fail = "openssl", written)
        d4 == check_call(d3, path, ssl_chain \o "+" \o ssl_key \o "#" \o pwd,
                         fail = "keytool", written)
        c == cleanup(d4.files)
    IN IF d4.exc # NoExc
       THEN \* except Exception as e: __cleanup(); raise e
            IF c.exc # NoExc THEN c ELSE Disk(c.files, d4.exc)
       ELSE c

KeystorePaths == {"/var/ssl/private/kafka_ks.jks"}

SslChains == {"certA", "certB"}

SslKeys == {"keyA", "keyB"}

CreateKeystore(path, pwd, ssl_chain, ssl_key, fail, written) ==
    /\ LET d == PKCS12CreateKeystore(machine.files, path, pwd, ssl_chain,
                                     ssl_key, fail, written) IN
         /\ machine' = [machine EXCEPT !.files = d.files]
         /\ ret' = [op |-> "PKCS12CreateKeystore", unit |-> "kafka/0",
                    arg |-> fail, exc |-> d.exc,
                    args |-> [NoArgs EXCEPT !.keystore_path = path,
                                            !.keystore_pwd = pwd],
                    out |-> Out("keystore", [ssl_chain |-> ssl_chain,
                                             ssl_key |-> ssl_key]),
                    run |-> 0]
    /\ UNCHANGED <<relations, data, state, truststore, nwrites, leader>>

InitKeystore ==
    /\ relations = {}
    /\ data = EmptyData
    /\ state = [u \in {"kafka/0"} |-> EmptyDict]
    /\ truststore = [u \in {"kafka/0"} |-> EmptyDict]
    /\ ret = NoCall
    /\ nwrites = [u \in {"kafka/0"} |-> 0]
    /\ leader = "kafka/0"
    /\ machine = [files |-> EmptyDict]

NextKeystore ==
    \E path \in KeystorePaths, pwd \in Passwords, ssl_chain \in SslChains,
       ssl_key \in SslKeys, fail \in KeystoreSteps \cup {"none"},
       written \in BOOLEAN :
          CreateKeystore(path, pwd, ssl_chain, ssl_key, fail, written)

SpecKeystore == InitKeystore /\ [][NextKeystore]_vars

\* the error a failing step raises
StepError(fail) ==
    CASE fail \in {"chain", "key"} -> "OSError"
      [] fail \in {"openssl", "keytool"} -> "CalledProcessError"
      [] OTHER -> NoExc

\* C28: when PKCS12CreateKeystore returns or raises, none of its three
\* temporary files is on disk, and a failure raises the error of the step
\* that failed
C28_TempFilesRemoved ==
    [][ret'.op = "PKCS12CreateKeystore" =>
         /\ TmpFiles \cap DOMAIN machine'.files = {}
         /\ ret'.exc = StepError(ret'.arg)]_vars

----------------------------------------------------------------------------
(* wand.apps.kafka: KafkaJavaCharmBase.on_update_status. machine holds the *)
(* unit status, the services list of the charm object and the services     *)
(* that run on the machine.                                                *)

\* self.service
ServiceName == "kafka"

MaintenanceStatus(message) == [name |-> "maintenance", message |-> message]

BlockedStatus(message) == [name |-> "blocked", message |-> message]

ActiveStatus(message) == [name |-> "active", message |-> message]

\* charmhelpers service_running(s)
service_running(running, s) == s \in running

\* [s for s in self.services if not service_running(s)]
svc_list(services, running) ==
    SelectSeq(services, LAMBDA s : ~service_running(running, s))

\* if not self.services: self.services = [self.service]
default_services(services) ==
    IF services = <<>> THEN <<ServiceName>> ELSE services

\* on_update_status(event): the machine it leaves
on_update_status(m) ==
    IF m.status.name = "maintenance" THEN m
    ELSE LET services == default_services(m.services)
             stopped == svc_list(services, m.running)
             m1 == [m EXCEPT !.services = services]
         IN IF Len(stopped) = 0
            THEN [m1 EXCEPT !.status =
                     ActiveStatus(ServiceName \o " is running")]
            ELSE IF m.status.name = "blocked" THEN m1
            ELSE [m1 EXCEPT !.status =
                     BlockedStatus("Services not running that should be: "
                                   \o join_str(stopped, ","))]

\* the services a charm watches and the statuses its other handlers set
ServiceLists == {<<>>, <<"kafka">>, <<"kafka", "jmx">>, <<"jmx", "kafka">>}

ServiceNames == {"kafka", "jmx"}

Statuses ==
    {MaintenanceStatus("installing"), MaintenanceStatus("restarting"),
     BlockedStatus("missing relation"), ActiveStatus("ready")}

\* update-status delivered to the unit
UpdateStatus ==
    /\ machine' = on_update_status(machine)
    /\ ret' = Returned("on_update_status", "kafka/0", "", NoExc)
    /\ UNCHANGED <<relations, data, state, truststore, nwrites, leader>>

\* another handler sets the unit status
StatusSet(st) ==
    /\ st \in Statuses
    /\ machine' = [machine EXCEPT !.status = st]
    /\ ret' = NoCall
    /\ UNCHANGED <<relations, data, state, truststore, nwrites, leader>>

\* a service starts or stops
ServiceToggled(s) ==
    /\ s \in ServiceNames
    /\ machine' = [machine EXCEPT !.running =
                      IF s \in @ THEN @ \ {s} ELSE @ \cup {s}]
    /\ ret' = NoCall
    /\ UNCHANGED <<relations, data, state, truststore, nwrites, leader>>

InitStatus ==
    /\ relations = {}
    /\ data = EmptyData
    /\ state = [u \in {"kafka/0"} |-> EmptyDict]
    /\ truststore = [u \in {"kafka/0"} |-> EmptyDict]
    /\ ret = NoCall
    /\ nwrites = [u \in {"kafka/0"} |-> 0]
    /\ leader = "kafka/0"
    /\ \E l \in ServiceLists :
         machine = [status |-> MaintenanceStatus("installing"),
                    services |-> l, running |-> {}]

NextStatus ==
    \/ UpdateStatus
    \/ \E st \in Statuses : StatusSet(st)
    \/ \E s \in ServiceNames : ServiceToggled(s)

SpecStatus == InitStatus /\ [][NextStatus]_vars

\* C30: on_update_status leaves a Maintenance or Blocked status as it is;
\* from any other status it sets Active when every service runs and Blocked
\* with the names of the stopped services otherwise
C30_StuckStatusKept ==
    [][ret'.op = "on_update_status" =>
         LET stopped == svc_list(default_services(machine.services),
                                 machine.running)
         IN IF machine.status.name \in {"maintenance", "blocked"}
            THEN machine'.status = machine.status
            ELSE IF stopped = <<>>
            THEN machine'.status.name = "active"
            ELSE machine'.status =
                    BlockedStatus("Services not running that should be: "
                                  \o join_str(stopped, ","))]_vars

----------------------------------------------------------------------------
(* wand.apps.relations.base_prometheus_monitoring: BasePrometheusMonitor.  *)
(* state holds the stored peer_rel_name and the deferred events of the     *)
(* unit, data the peer relation, machine the charm metadata, the units of  *)
(* the peer relation and the prometheus_job_available events emitted.      *)

PromRel == "prometheus"

PeerRel == "cluster"

PromThis == "kafka/0"

PromPeers == {"kafka/1", "kafka/2"}

\* the most events counted
MaxEmit == 2

\* self._relation_name + "_endpoint"
entryname == PromRel \o "_endpoint"

\* _implicit_peer_relation_name(): None is the text "None"
implicit_peer_relation_name(m) == IF m.has_peers THEN PeerRel ELSE "None"

\* the getter peer_rel_name: len() of the stored value, None for ""
peer_rel_name(st) ==
    IF st.peer_rel_name = "None" THEN [val |-> "None", exc |-> "TypeError"]
    ELSE IF st.peer_rel_name = "" THEN [val |-> "None", exc |-> NoExc]
    ELSE [val |-> st.peer_rel_name, exc |-> NoExc]

\* what a handler leaves: stored state, peer data, emitted, deferred, exc
Handled(st, dat, emitted, deferred, exc) ==
    [st |-> st, dat |-> dat, emitted |-> emitted, deferred |-> deferred,
     exc |-> exc]

\* on_prometheus_relation_joined(event); a hook that raises commits nothing
on_prometheus_relation_joined(st, dat, m) ==
    LET st1 == [st EXCEPT !.peer_rel_name = implicit_peer_relation_name(m)]
        n == peer_rel_name(st1)
    IN IF n.exc # NoExc THEN Handled(st, dat, FALSE, FALSE, n.exc)
       ELSE IF n.val = "None" THEN Handled(st1, dat, FALSE, FALSE, NoExc)
       ELSE Handled(st1,
                    [dat EXCEPT ![PeerRel][PromThis] =
                        SetItem(@, entryname, "10.0.0.1")],
                    FALSE, FALSE, NoExc)

\* every unit of peer_rel.units has entryname in its data
peers_published(dat, m) ==
    \A u \in m.peers : entryname \in DOMAIN dat[PeerRel][u]

\* not self.peer_rel_name
peer_rel_name_unset(n) == n.val = "None"

\* on_prometheus_relation_changed(event)
on_prometheus_relation_changed(st, dat, m) ==
    LET n == peer_rel_name(st) IN
    IF n.exc # NoExc THEN Handled(st, dat, FALSE, FALSE, n.exc)
    ELSE IF peer_rel_name_unset(n) THEN Handled(st, dat, TRUE, FALSE, NoExc)
    ELSE IF entryname \notin DOMAIN dat[PeerRel][PromThis]
    THEN Handled(st, dat, FALSE, TRUE, NoExc)
    ELSE IF ~peers_published(dat, m)
    THEN Handled(st, dat, FALSE, TRUE, NoExc)
    ELSE Handled(st, dat, TRUE, FALSE, NoExc)

\* the handler has run: state committed, events counted, deferral recorded
PromCall(h, op, redelivered) ==
    /\ state' = [state EXCEPT ![PromThis] =
                    [h.st EXCEPT !.deferred =
                        IF h.deferred THEN TRUE
                        ELSE IF redelivered THEN FALSE ELSE @]]
    /\ data' = h.dat
    /\ machine' = [machine EXCEPT !.emitted =
                      IF h.emitted /\ @ < MaxEmit THEN @ + 1 ELSE @]
    /\ ret' = [op |-> op, unit |-> PromThis,
               arg |-> IF redelivered THEN "deferred" ELSE "",
               exc |-> h.exc, args |-> NoArgs,
               out |-> Out("prom", [emitted |-> h.emitted,
                                    deferred |-> h.deferred]),
               run |-> 0]
    /\ UNCHANGED <<relations, truststore, nwrites, leader>>

\* the prometheus relation is established
PromRelationCreated ==
    /\ PromRel \notin relations
    /\ relations' = relations \cup {PromRel}
    /\ ret' = NoCall
    /\ UNCHANGED <<data, state, truststore, nwrites, leader, machine>>

\* prometheus-relation-joined delivered to the unit
PromRelationJoined ==
    /\ PromRel \in relations
    /\ PromCall(on_prometheus_relation_joined(state[PromThis], data, machine),
                "on_prometheus_relation_joined", FALSE)

\* prometheus-relation-changed delivered to the unit, after its -joined
PromRelationChanged ==
    /\ PromRel \in relations
    /\ state[PromThis].peer_rel_name # ""
    /\ PromCall(on_prometheus_relation_changed(state[PromThis], data,
                                               machine),
                "on_prometheus_relation_changed", FALSE)

\* on_peer_relation_changed of the charm: with a prometheus relation, rerun
\* on_prometheus_relation_changed
PeerRelationChanged ==
    /\ machine.has_peers
    /\ PromRel \in relations
    /\ PromCall(on_prometheus_relation_changed(state[PromThis], data,
                                               machine),
                "on_prometheus_relation_changed", FALSE)

\* the framework hands the deferred event to its handler again
PromReemit ==
    /\ state[PromThis].deferred
    /\ PromCall(on_prometheus_relation_changed(state[PromThis], data,
                                               machine),
                "on_prometheus_relation_changed", TRUE)

\* a peer unit enters the peer relation
PeerJoined(u) ==
    /\ u \in PromPeers
    /\ machine.has_peers
    /\ u \notin machine.peers
    /\ machine' = [machine EXCEPT !.peers = @ \cup {u}]
    /\ ret' = NoCall
    /\ UNCHANGED <<relations, data, state, truststore, nwrites, leader>>

\* a peer unit publishes its endpoint in the peer relation
PeerPublished(u) ==
    /\ u \in PromPeers
    /\ u \in machine.peers
    /\ entryname \notin DOMAIN data[PeerRel][u]
    /\ data' = [data EXCEPT ![PeerRel][u] = SetItem(@, entryname, "10.0.0.2")]
    /\ ret' = NoCall
    /\ UNCHANGED <<relations, state, truststore, nwrites, leader, machine>>

InitProm ==
    /\ relations = {}
    /\ data = [r \in {PeerRel} |-> [u \in {PromThis} \cup PromPeers |->
                  EmptyDict]]
    /\ state = [u \in {PromThis} |-> [peer_rel_name |-> "",
                                      deferred |-> FALSE]]
    /\ truststore = [u \in {PromThis} |-> EmptyDict]
    /\ ret = NoCall
    /\ nwrites = [u \in {PromThis} |-> 0]
    /\ leader = PromThis
    /\ \E b \in BOOLEAN :
         machine = [has_peers |-> b, peers |-> {}, emitted |-> 0]

NextProm ==
    \/ PromRelationCreated
    \/ PromRelationJoined
    \/ PromRelationChanged
    \/ PeerRelationChanged
    \/ PromReemit
    \/ \E u \in PromPeers : PeerJoined(u)
    \/ \E u \in PromPeers : PeerPublished(u)

SpecProm == InitProm /\ [][NextProm]_vars

\* this unit and every unit of the peer relation have published entryname
AllEndpoints ==
    /\ entryname \in DOMAIN data[PeerRel][PromThis]
    /\ peers_published(data, machine)

\* C31: on_prometheus_relation_changed emits prometheus_job_available exactly
\* when there is no peer relation or every endpoint is published, and defers
\* the event, emitting nothing, otherwise
C31_EmitOnlyWhenComplete ==
    [][(ret'.op = "on_prometheus_relation_changed" /\ ret'.exc = NoExc) =>
         IF ~machine.has_peers \/ AllEndpoints
         THEN ret'.out.val.emitted /\ ~ret'.out.val.deferred
         ELSE ~ret'.out.val.emitted /\ ret'.out.val.deferred]_vars

----------------------------------------------------------------------------
(* wand.contrib.coordinator: RestartEvent and OpsCoordinator. The locks    *)
(* are those of the charmhelpers Serial coordinator: machine.coord holds   *)
(* the queue of the units that request the 'restart' lock, oldest first,   *)
(* and for every unit whether the leader's grant matches its request       *)
(* ("granted"), is left over from a released request ("stale") or is       *)
(* absent ("none"). machine.saved is the state file of every unit and      *)
(* machine.deferred the snapshot of the restart event a unit deferred.     *)

CoordUnits == ProviderUnits

NoGrants == [u \in CoordUnits |-> "none"]

\* self.granted(lock)
granted(c, u) == u \in SeqToSet(c.requests) /\ c.grants[u] = "granted"

\* Serial.default_grant: the head of the queue, and nobody holds the lock
default_grant(u, holders, queue) == u = queue[1] /\ holders = {}

\* self.grant(lock, unit) run on unit k
grant(c, u, k) ==
    LET holders == {v \in CoordUnits : c.grants[v] # "none"}
        queue == SelectSeq(c.requests, LAMBDA v : v \notin holders)
    IN IF ~is_leader(k) THEN [c |-> c, out |-> FALSE]
       ELSE IF u \in holders THEN [c |-> c, out |-> TRUE]
       ELSE IF u \notin SeqToSet(queue) THEN [c |-> c, out |-> FALSE]
       ELSE IF default_grant(u, holders, queue)
       THEN [c |-> [c EXCEPT !.grants[u] = "granted"], out |-> TRUE]
       ELSE [c |-> c, out |-> FALSE]

RECURSIVE grant_all(_, _, _)
grant_all(c, us, k) ==
    IF us = <<>> THEN c ELSE grant_all(grant(c, Head(us), k).c, Tail(us), k)

\* self.handle(): the leader revokes the grants that match no request and
\* grants the requests in the order of the queue
handle(c, k) ==
    IF ~is_leader(k) THEN c
    ELSE LET c1 == [c EXCEPT !.grants =
                       [u \in CoordUnits |->
                           IF granted(c, u) THEN "granted" ELSE "none"]]
         IN grant_all(c1, c1.requests, k)

\* OpsCoordinator.resume(): initialize() and handle()
resume(c, k) == handle(c, k)

\* coordinator.acquire('restart') on unit u
acquire(c, u) ==
    LET c1 == IF u \in SeqToSet(c.requests) THEN c
              ELSE [c EXCEPT !.requests = Append(@, u)]
    IN IF granted(c1, u) THEN [c |-> c1, out |-> TRUE]
       ELSE IF is_leader(u) THEN grant(c1, u, u)
       ELSE [c |-> c1, out |-> FALSE]

\* self._release_granted(): a granted request is withdrawn
release_granted(c, u) ==
    IF granted(c, u)
    THEN [c EXCEPT !.requests = SelectSeq(@, LAMBDA v : v # u),
                   !.grants[u] = "stale"]
    ELSE c

\* release left out: the lock stays as it is and nothing is saved
release_skipped(m, u) == m

\* OpsCoordinator.release(): _release_granted() and _save_state()
release(m, u) ==
    LET c == release_granted(m.coord, u)
    IN [m EXCEPT !.coord = c, !.saved[u] = c]

\* OpsCoordinator.handle_locks(unit)
handle_locks(m, u) ==
    IF ~is_leader(u) THEN m
    ELSE release([m EXCEPT !.coord = resume(m.coord, u)], u)

\* RestartEvent(handle, ctx, services)
RestartEvent(ctx, services) == [ctx |-> json_dumps(ctx), svc |-> services]

\* RestartEvent.snapshot(): ",".join(self._svc) as the list of its pieces
snapshot(ev) == [ctx |-> ev.ctx, svc |-> Join(ev.svc)]

\* RestartEvent.restore(snapshot): snapshot["svc"].split(",")
restore(snap) == [ctx |-> snap.ctx, svc |-> Split(snap.svc)]

\* RestartEvent.restart() on unit u: the machine, the result, what acquire
\* returned and the services resumed, reloaded and restarted
restart(m, ev, u) ==
    LET a == acquire(resume(m.coord, u), u)
        m1 == [m EXCEPT !.coord = a.c]
    IN IF a.out
       THEN [m |-> release(m1, u), out |-> TRUE, acquired |-> a.out,
             restarted |-> ev.svc]
       ELSE [m |-> release(m1, u), out |-> FALSE, acquired |-> a.out,
             restarted |-> <<>>]

\* the contexts and the service lists a restart is emitted with
RestartCtxs == {("listeners" :> "a"), ("listeners" :> "b")}

RestartServices == {<<>>, <<"kafka">>, <<"kafka", "jmx">>}

\* on_restart_event(event) on unit u: event.restart(), else event.defer()
RestartCall(u, ev, emitted, how) ==
    LET r == restart(machine, ev, u) IN
    /\ machine' = [r.m EXCEPT !.deferred[u] =
                      IF r.out THEN <<>>
                      ELSE <<[snapshot |-> snapshot(ev),
                              emitted |-> emitted]>>]
    /\ ret' = [op |-> "restart", unit |-> u, arg |-> how, exc |-> NoExc,
               args |-> NoArgs,
               out |-> Out("restart", [svc |-> ev.svc, out |-> r.out,
                                       acquired |-> r.acquired,
                                       restarted |-> r.restarted]),
               run |-> 0]
    /\ UNCHANGED <<relations, data, state, truststore, nwrites, leader>>

\* self.on.restart_event.emit(ctx, services=...)
RestartEmitted(u, ctx, services) ==
    /\ u \in CoordUnits
    /\ machine.deferred[u] = <<>>
    /\ RestartCall(u, RestartEvent(ctx, services),
                   RestartEvent(ctx, services), "emitted")

\* the framework restores the deferred event and hands it over again
RestartReemitted(u) ==
    /\ u \in CoordUnits
    /\ machine.deferred[u] # <<>>
    /\ RestartCall(u, restore(machine.deferred[u][1].snapshot),
                   machine.deferred[u][1].emitted, "deferred")

\* coordinator.handle_locks(self.unit) in config-changed and update-status
HandleLocks(u) ==
    /\ u \in CoordUnits
    /\ machine' = handle_locks(machine, u)
    /\ ret' = Returned("handle_locks", u, "", NoExc)
    /\ UNCHANGED <<relations, data, state, truststore, nwrites, leader>>

InitRestart ==
    /\ relations = {}
    /\ data = EmptyData
    /\ state = [u \in CoordUnits |-> EmptyDict]
    /\ truststore = [u \in CoordUnits |-> EmptyDict]
    /\ ret = NoCall
    /\ nwrites = [u \in CoordUnits |-> 0]
    /\ leader = "kafka/0"
    /\ machine = [coord |-> [requests |-> <<>>, grants |-> NoGrants],
                  saved |-> [u \in CoordUnits |->
                                [requests |-> <<>>, grants |-> NoGrants]],
                  deferred |-> [u \in CoordUnits |-> <<>>]]

NextRestart ==
    \/ \E u \in CoordUnits, ctx \in RestartCtxs, svc \in RestartServices :
          RestartEmitted(u, ctx, svc)
    \/ \E u \in CoordUnits : RestartReemitted(u)
    \/ \E u \in CoordUnits : HandleLocks(u)

SpecRestart == InitRestart /\ [][NextRestart]_vars

C32_WitnessDenied ==
    /\ ret.op = "restart"
    /\ ~ret.out.val.out
    /\ ret.unit # leader
    /\ ret.unit \in SeqToSet(machine.coord.requests)

\* C38: restore(snapshot()) of a RestartEvent gives the ctx and the list of
\* services the event was emitted with, the empty list included
C38_SnapshotRoundTrip ==
    \A u \in CoordUnits : \A i \in DOMAIN machine.deferred[u] :
       LET e == machine.deferred[u][i]
       IN /\ restore(e.snapshot).ctx = e.emitted.ctx
          /\ restore(e.snapshot).svc = e.emitted.svc

----------------------------------------------------------------------------
(* set_bootstrap_data: the assignments a call executes                     *)

\* the assignments r.data[self.unit]["bootstrap-data"] = j of a call
set_bootstrap_data_writes(dat, rels, k, lst) ==
    IF is_empty_template(lst) \/ relations_of(rels, k) = <<>> THEN {}
    ELSE LET c == convert_listener_template(lst, k) IN
         IF c.exc # NoExc THEN {}
         ELSE {<<r, k, "bootstrap-data">> :
                  r \in {x \in SeqToSet(relations_of(rels, k)) :
                            bootstrap_data_differs(dat[x][k],
                                                   json_dumps(c.val))}}

\* the templates a unit passes: the allocation of the leader for the requests
\* published so far, or the empty dict a unit that is not leader gets
PublishTemplates == {"allocation", "dict"}

PublishTemplate(t) ==
    IF t = "allocation"
    THEN get_unit_listener(state, data, relations, Provider, SysArgs).out
    ELSE Out("dict", EmptyDict)

\* set_bootstrap_data(lst) on a provider unit
PublishBootstrapData(k, t) ==
    /\ k \in ProviderUnits
    /\ LET lst == PublishTemplate(t)
           e == set_bootstrap_data(state, data, truststore, relations, k, lst)
           w == set_bootstrap_data_writes(data, relations, k, lst)
       IN /\ data' = e.dat
          /\ ret' = [op |-> "set_bootstrap_data", unit |-> k, arg |-> t,
                     exc |-> e.exc, args |-> SysArgs,
                     out |-> Out("sent", [writes |-> w, lst |-> lst]),
                     run |-> 0]
    /\ UNCHANGED <<relations, state, truststore, nwrites, leader, machine>>

InitPublish ==
    /\ relations = {}
    /\ Constructed([u \in RequirerUnits |-> RequirerInit("pw1").request])

\* the relation instances established and the remote units that publish
PublishRels == {"r1", "r2"}

NextPublish ==
    \/ \E r \in PublishRels : RelationCreated(r)
    \/ \E r \in PublishRels, u \in BootReaders, req \in {PlainReq, SaslReq} :
          RemotePublish(r, u, req)
    \/ \E k \in ProviderUnits, t \in PublishTemplates :
          PublishBootstrapData(k, t)

SpecPublish == InitPublish /\ [][NextPublish]_vars

\* the keys of the relation data whose value differs between two states
ChangedKeys(dat, dat2) ==
    UNION {UNION {{<<r, u, key>> :
                     key \in {x \in DOMAIN dat[r][u] \cup DOMAIN dat2[r][u] :
                                 \/ x \notin DOMAIN dat[r][u]
                                 \/ x \notin DOMAIN dat2[r][u]
                                 \/ dat[r][u][x] # dat2[r][u][x]}} :
                  u \in UnitsIn(r)} : r \in Rels}

\* C33: set_bootstrap_data assigns only the 'bootstrap-data' key of the
\* calling unit, in established relation instances, never where the stored
\* value equals the resolved map, and a call repeated with the same template
\* assigns nothing
C33_OwnBootstrapDataOnly ==
    [][ret'.op = "set_bootstrap_data" =>
         LET w == ret'.out.val.writes
             k == ret'.unit
             c == convert_listener_template(ret'.out.val.lst, k)
         IN /\ \A x \in w : /\ x[1] \in relations
                            /\ x[2] = k
                            /\ x[3] = "bootstrap-data"
            /\ ChangedKeys(data, data') = w
            /\ relations = {} => w = {}
            /\ (ret'.exc = NoExc /\ relations # {}) =>
                 \A r \in relations :
                    /\ data'[r][k]["bootstrap-data"] = json_dumps(c.val)
                    /\ (/\ "bootstrap-data" \in DOMAIN data[r][k]
                        /\ data[r][k]["bootstrap-data"] = json_dumps(c.val))
                       => <<r, k, "bootstrap-data">> \notin w
            /\ (/\ ret.op = "set_bootstrap_data" /\ ret.unit = k
                /\ ret.out.val.lst = ret'.out.val.lst) => w = {}]_vars

\* a second call with the same allocation, after the first one wrote it in two
\* relation instances, assigned nothing
C33_Witness ==
    /\ ret.op = "set_bootstrap_data" /\ ret.exc = NoExc
    /\ ret.arg = "allocation"
    /\ ret.out.val.writes = {}
    /\ Cardinality(relations) >= 2
    /\ \A r \in relations : "bootstrap-data" \in DOMAIN data[r][ret.unit]
    /\ DOMAIN ret.out.val.lst.val # {}

----------------------------------------------------------------------------
(* get_unit_listener: the fields of the listeners built from the requests  *)

\* complete requests with every combination of the fields that are copied
FieldRequests ==
    {("is_public" :> FALSE) @@ ("plaintext_pwd" :> q.plaintext_pwd)
        @@ ("secprot" :> q.secprot) @@ ("SASL" :> q.SASL)
        @@ ("cert" :> q.cert) :
       q \in [plaintext_pwd : {"", "pw1"},
              secprot : {"PLAINTEXT", "SSL", "SASL_SSL"},
              SASL : SaslValues, cert : CertChains]}

FieldArgs == [keystore_path : {"/ks.jks"}, keystore_pwd : KsPwds,
              get_default : BOOLEAN, clientauth : BOOLEAN]

\* the leader of a remote application publishes a complete request
RequestPublished(r, u, req) ==
    /\ r \in PublishRels
    /\ u \in BootReaders
    /\ req \in FieldRequests
    /\ RemotePublish(r, u, req)

InitFields ==
    /\ relations = PublishRels
    /\ data = EmptyData
    /\ state = [u \in Units |->
                  IF u \in ProviderUnits
                  THEN [ProviderInit("ipw", "epw", "bpw")
                          EXCEPT !.ts_path = "/ts.jks", !.ts_pwd = "tspw"]
                  ELSE RequirerInit("pw1")]
    /\ truststore = [u \in Units |-> NoStore]
    /\ ret = NoCall
    /\ nwrites = [u \in Units |-> 0]
    /\ leader = "kafka/0"
    /\ machine = NoMachine

NextFields ==
    \/ \E r \in PublishRels, u \in BootReaders, req \in FieldRequests :
          RequestPublished(r, u, req)
    \/ \E k \in ProviderUnits, args \in FieldArgs : GetUnitListener(k, args)

SpecFields == InitFields /\ [][NextFields]_vars

\* the request behind the listener of an application in an allocation
RequestOf(n) ==
    LET acc == Accepted(data, relations, Provider)
        i == CHOOSE j \in 1..Len(acc) : replace_dash(AppOf[acc[j][2]]) = n
    IN data[acc[i][1]][acc[i][2]]["request"].obj

----------------------------------------------------------------------------
(* The requests a requirer publishes, read by the provider                 *)

\* C35: every request that the requirer has published decodes to an object
\* with the fields secprot, SASL, plaintext_pwd and cert, and the leader's
\* get_unit_listener returns for it without an error
C35_PublishedRequestAccepted ==
    \A r \in relations :
       "request" \in DOMAIN data[r][Requirer] =>
          /\ loads_is_dict(data[r][Requirer]["request"])
          /\ {"secprot", "SASL", "plaintext_pwd", "cert"}
                \subseteq DOMAIN data[r][Requirer]["request"].obj
          /\ get_unit_listener(state, data, relations, Provider, SysArgs).exc
                = NoExc

----------------------------------------------------------------------------
(* KafkaJavaCharmBase.is_sasl_kerberos_enabled                             *)

mandatory_options ==
    <<"kerberos-protocol", "kerberos-realm", "kerberos-domain",
      "kerberos-kdc-hostname", "kerberos-admin-hostname">>

KerberosOptions == {mandatory_options[i] : i \in 1..Len(mandatory_options)}

\* values an operator gives to an option: the empty text or some text
KerberosValues == {"", "HTTP"}

KafkaCharmBaseMissingConfigError == "KafkaCharmBaseMissingConfigError"

\* self.config: an option without a default and without a value is not a
\* key of the mapping, and config.get(e, None) is None for it
config_is_none(c, e) == e \notin DOMAIN c

\* len(self.config.get(e, None)) == 0
config_len_is_zero(c, e) == c[e] = ""

\* the first option of mandatory_options, in order, whose length is zero
first_unset(c) ==
    LET unset == {i \in 1..Len(mandatory_options) :
                     config_len_is_zero(c, mandatory_options[i])}
    IN  mandatory_options[CHOOSE i \in unset : \A j \in unset : i <= j]

is_sasl_kerberos_enabled(c) ==
    IF \E e \in KerberosOptions : config_is_none(c, e)
    THEN [exc |-> "TypeError", arg |-> "", out |-> FALSE]
    ELSE LET n == Cardinality({e \in KerberosOptions :
                                  config_len_is_zero(c, e)})
         IN  IF n = Len(mandatory_options)
             THEN [exc |-> NoExc, arg |-> "", out |-> FALSE]
             ELSE IF n = 0
             THEN [exc |-> NoExc, arg |-> "", out |-> TRUE]
             ELSE [exc |-> KafkaCharmBaseMissingConfigError,
                   arg |-> first_unset(c), out |-> FALSE]

\* juju config <option>=<value>
ConfigChanged(e, v) ==
    /\ machine' = [machine EXCEPT !.config = (e :> v) @@ machine.config]
    /\ ret' = NoCall
    /\ UNCHANGED <<relations, data, state, truststore, nwrites, leader>>

IsSaslKerberosEnabled ==
    LET r == is_sasl_kerberos_enabled(machine.config) IN
    /\ ret' = [op |-> "is_sasl_kerberos_enabled", unit |-> "kafka/0",
               arg |-> r.arg, exc |-> r.exc, args |-> NoArgs,
               out |-> Out("bool", [out |-> r.out]), run |-> 0]
    /\ UNCHANGED <<relations, data, state, truststore, nwrites, leader,
                   machine>>

\* the charm's config.yaml declares the options with the default "" or
\* without a default
InitKerberos ==
    /\ relations = {}
    /\ data = EmptyData
    /\ state = [u \in {"kafka/0"} |-> EmptyDict]
    /\ truststore = [u \in {"kafka/0"} |-> EmptyDict]
    /\ ret = NoCall
    /\ nwrites = [u \in {"kafka/0"} |-> 0]
    /\ leader = "kafka/0"
    /\ \E d \in BOOLEAN :
         machine = [has_defaults |-> d,
                    config |-> IF d THEN [e \in KerberosOptions |-> ""]
                               ELSE EmptyDict]

NextKerberos ==
    \/ \E e \in KerberosOptions : \E v \in KerberosValues : ConfigChanged(e, v)
    \/ IsSaslKerberosEnabled

SpecKerberos == InitKerberos /\ [][NextKerberos]_vars

\* an option is set when the configuration holds a non-empty value for it
kerberos_set(c) == {e \in KerberosOptions : e \in DOMAIN c /\ c[e] # ""}

\* C36: is_sasl_kerberos_enabled returns False when none of the five
\* mandatory options is set, True when all five are set, and raises
\* KafkaCharmBaseMissingConfigError naming the first unset option when only
\* some are set
C36_KerberosAllOrNothing ==
    ret.op = "is_sasl_kerberos_enabled" =>
       LET c == machine.config
           unset == {i \in 1..Len(mandatory_options) :
                        mandatory_options[i] \notin kerberos_set(c)}
       IN  /\ kerberos_set(c) = {} =>
                ret.exc = NoExc /\ ret.out.val.out = FALSE
           /\ kerberos_set(c) = KerberosOptions =>
                ret.exc = NoExc /\ ret.out.val.out = TRUE
           /\ kerberos_set(c) \notin {{}, KerberosOptions} =>
                /\ ret.exc = KafkaCharmBaseMissingConfigError
                /\ ret.arg = mandatory_options[
                       CHOOSE i \in unset : \A j \in unset : i <= j]

----------------------------------------------------------------------------
(* The zookeeper truststore                                                *)

\* the certificates the peers have published
peer_mtls_certs(dat) ==
    {Get(dat[ZkRel][u], "mtls_cert", "") : u \in SeqToSet(ZkPeers)} \ {""}

\* C37: after set_mTLS_auth or on_zookeeper_relation_changed with mTLS
\* enabled the truststore holds this unit's mtls_cert and the mtls_cert of
\* every peer that has published one; when a peer has published one and this
\* unit has not, the call ends with ZookeeperRelationMTLSNotSetError and no
\* truststore is built
C37_TruststoreFromAllCerts ==
    (/\ ret.op \in {"set_mTLS_auth", "on_zookeeper_relation_changed",
                    "ZookeeperRelation.on_zookeeper_relation_changed"}
     /\ ret.unit = ZkThis) =>
       LET en == is_mTLS_enabled(data, ZkThis) IN
       /\ en = "True" =>
            /\ ret.exc = NoExc
            /\ truststore[ZkThis] # NoStore
            /\ SeqToSet(truststore[ZkThis].certs) =
                  {state[ZkThis].mtls_cert} \cup peer_mtls_certs(data)
       /\ en = "ZookeeperRelationMTLSNotSetError" =>
            /\ ret.exc = "ZookeeperRelationMTLSNotSetError"
            /\ truststore[ZkThis] = NoStore

----------------------------------------------------------------------------
(* DiskMapHelper (wand/contrib/disk_map.py)                                *)

\* the storage locations juju can hand to the unit, in the order of
\* charm.model.storages[storage_name]
Disks == <<"/dev/vdb", "/dev/vdc">>

Folders == {"/data", "/test"}

\* the folder maps of the charm's option, as the list of their paths; each
\* entry carries fs-type ext4 and options ''
FolderMaps == {<<>>, <<"/data">>, <<"/data", "/test">>}

\* _check_folder_map: an empty map is refused and "{}" is stored instead,
\* which holds no folder either
check_folder_map(fm) == fm # <<>>

DiskMapInit(fm) ==
    [disk2folder |-> EmptyDict,
     foldermap |-> IF check_folder_map(fm) THEN fm ELSE <<>>,
     are_disks_attached |-> FALSE]

\* create_dir: its first statement reads data_dev, a name that is assigned
\* only in a comment; nothing is created
create_dir(data_log_dev, data_log_dir, fs) ==
    [exc |-> "NameError", fs |-> fs]

\* the values of the dict
d2f_values(d2f) == {d2f[k] : k \in DOMAIN d2f}

\* the loop over foldermap.items() for the disk dk
RECURSIVE folder_loop(_, _, _, _)
folder_loop(fs_, dk, acc, fm) ==
    IF fs_ = <<>> THEN acc
    ELSE LET f == Head(fs_) IN
         IF f \in d2f_values(acc.d2f) \/ f \in acc.fs
         THEN folder_loop(Tail(fs_), dk, acc, fm)
         ELSE LET r == create_dir(dk, f, acc.fs) IN
              IF r.exc # NoExc
              THEN [acc EXCEPT !.exc = r.exc]
              ELSE [acc EXCEPT !.d2f = (dk :> f) @@ @,
                               !.saved = (dk :> f) @@ acc.d2f,
                               !.fs = r.fs]

\* the loop over the storages
RECURSIVE storage_loop(_, _, _)
storage_loop(ss, acc, fm) ==
    IF ss = <<>> \/ acc.exc # NoExc THEN acc
    ELSE LET dk == Head(ss) IN
         IF dk \in DOMAIN acc.d2f THEN storage_loop(Tail(ss), acc, fm)
         ELSE storage_loop(Tail(ss), folder_loop(fm, dk, acc, fm), fm)

already_arranged_never(h) == FALSE

\* if self.state.are_disks_attached: return
already_arranged(h) == h.are_disks_attached

\* DiskMapHelper.attach_disks: [helper, fs, exc]
attach_disks(h, storages, fs) ==
    IF already_arranged(h) THEN [h |-> h, fs |-> fs, exc |-> NoExc]
    ELSE LET acc == storage_loop(storages,
                                 [d2f |-> h.disk2folder,
                                  saved |-> h.disk2folder,
                                  fs |-> fs, exc |-> NoExc],
                                 h.foldermap)
         IN  IF acc.exc # NoExc
             THEN [h |-> [h EXCEPT !.disk2folder = acc.saved],
                   fs |-> acc.fs, exc |-> acc.exc]
             ELSE [h |-> [h EXCEPT !.disk2folder = acc.saved,
                                   !.are_disks_attached = TRUE],
                   fs |-> acc.fs, exc |-> NoExc]

\* the storages present, in the order of Disks
storages_of(present) == SelectSeq(Disks, LAMBDA d : d \in present)

DiskCall(op, arg, exc, was) ==
    ret' = [op |-> op, unit |-> "kafka/0", arg |-> arg, exc |-> exc,
            args |-> NoArgs, out |-> Out("disks", [attached_before |-> was]),
            run |-> 0]

AttachDisks ==
    LET r == attach_disks(machine.helper, storages_of(machine.storages),
                          machine.fs) IN
    /\ machine' = [machine EXCEPT !.helper = r.h, !.fs = r.fs]
    /\ DiskCall("attach_disks", "", r.exc, machine.helper.are_disks_attached)
    /\ UNCHANGED <<relations, data, state, truststore, nwrites, leader>>

\* on_storage_attached: logs
on_storage_attached(h) == h

\* on_storage_detaching: logs
on_storage_detaching(h) == h

StorageAttached(d) ==
    /\ d \notin machine.storages
    /\ machine' = [machine EXCEPT !.storages = @ \cup {d},
                                  !.helper = on_storage_attached(@)]
    /\ DiskCall("on_storage_attached", d, NoExc,
                machine.helper.are_disks_attached)
    /\ UNCHANGED <<relations, data, state, truststore, nwrites, leader>>

StorageDetaching(d) ==
    /\ d \in machine.storages
    /\ machine' = [machine EXCEPT !.storages = @ \ {d},
                                  !.helper = on_storage_detaching(@)]
    /\ DiskCall("on_storage_detaching", d, NoExc,
                machine.helper.are_disks_attached)
    /\ UNCHANGED <<relations, data, state, truststore, nwrites, leader>>

\* some other software creates or removes a folder
FolderMade(f) ==
    /\ f \notin machine.fs
    /\ machine' = [machine EXCEPT !.fs = @ \cup {f}]
    /\ ret' = NoCall
    /\ UNCHANGED <<relations, data, state, truststore, nwrites, leader>>

FolderRemoved(f) ==
    /\ f \in machine.fs
    /\ f \notin d2f_values(machine.helper.disk2folder)
    /\ machine' = [machine EXCEPT !.fs = @ \ {f}]
    /\ ret' = NoCall
    /\ UNCHANGED <<relations, data, state, truststore, nwrites, leader>>

InitDisks ==
    /\ relations = {}
    /\ data = EmptyData
    /\ state = [u \in {"kafka/0"} |-> EmptyDict]
    /\ truststore = [u \in {"kafka/0"} |-> EmptyDict]
    /\ ret = NoCall
    /\ nwrites = [u \in {"kafka/0"} |-> 0]
    /\ leader = "kafka/0"
    /\ \E fm \in FolderMaps :
         machine = [helper |-> DiskMapInit(fm), storages |-> {}, fs |-> {}]

NextDisks ==
    \/ AttachDisks
    \/ \E d \in SeqToSet(Disks) : StorageAttached(d)
    \/ \E d \in SeqToSet(Disks) : StorageDetaching(d)
    \/ \E f \in Folders : FolderMade(f)
    \/ \E f \in Folders : FolderRemoved(f)

SpecDisks == InitDisks /\ [][NextDisks]_vars

\* no folder is the value of two disks
OneToOne(d2f) ==
    \A a, b \in DOMAIN d2f : d2f[a] = d2f[b] => a = b

====
